---- MODULE Spec2Model ----
(***************************************************************************)
(* A model of dbgee (nullpo-head/dbgee): the wrapper installer (set/unset  *)
(* of a shim script over a debuggee), the shim detection, and the          *)
(* run / set / unset life cycle with the controlled start of the debuggee. *)
(*                                                                         *)
(* Files are modelled by what the code reads of them: their kind, their    *)
(* permission bits and their lines.  Paths are strings, so that the two    *)
(* ways the code builds the backup name (on the file name, and on the      *)
(* whole path) are computed and not assumed equal.                         *)
(***************************************************************************)
EXTENDS Integers, Sequences, FiniteSets, TLC

VARIABLES
    fs,        \* the directory of the debuggee: path -> file
    root,      \* TRUE iff dbgee runs with euid 0 (permission checks on open are skipped)
    fs0,       \* history: the file system at the start
    calls,     \* history: the completed installer calls, oldest first
    pc,        \* where the dbgee process is in main
    cmd,       \* the command line of the dbgee process
    adapter,   \* the Debugger object build_debugger made
    sigint,    \* the SIGINT disposition of the dbgee process
    child,     \* the process dbgee started: the debuggee, or the debugger server
    debuggee_abspath,  \* the local of Debugger::run: <<>> or <<path to launch>>
    events,    \* history: what the dbgee process did, oldest first
    exit_code, \* <<>> while dbgee runs, <<code>> once it called exit
    pid_file,  \* /tmp/dbgee_pid: <<>> or <<its text>>
    runs,      \* how many dbgee processes were started
    sigints,   \* how many SIGINTs were sent to dbgee
    tracees,   \* hook mode: pid -> the process of the traced command's tree
    hook,      \* hook mode: the locals of run_hook
    argv,      \* the words the shell made of a shim's command line, <<>> before
    writers,   \* fifo -> the background worker VsCode started to write it
    cmd_cache, \* CMD_OUTPUT_CACHE: key -> the output of the command
    lookup,    \* the last call of get_cached_command_output and its result
    units,     \* the compilation units of the DWARF of a candidate executable
    scan,      \* the result of any_in_dwarf_decl_file on them, <<>> before
    installers \* the dbgee processes that install at the same time: where each is

fsvars == <<fs, root, fs0, calls>>
procvars == <<pc, cmd, adapter, sigint, child, debuggee_abspath, events, exit_code>>
vars == <<fs, root, fs0, calls, pc, cmd, adapter, sigint, child, debuggee_abspath,
          events, exit_code, pid_file, runs, sigints, tracees, hook, argv, writers,
          cmd_cache, lookup, units, scan, installers>>
hookvars == <<tracees, hook>>
dwarfvars == <<units, scan>>
cachevars == <<cmd_cache, lookup, dwarfvars, installers>>

----------------------------------------------------------------------------
(* Bounds of the model. *)

\* how many installer calls one behaviour of SpecInstaller makes
MaxCalls == 3

----------------------------------------------------------------------------
(* Paths. *)

\* the directory dbgee is started in
Cwd == "/tmp"

\* the names a user passes for the debuggee: relative to Cwd, and absolute
DebuggeeNames == {"hello", "/tmp/hello"}

\* Path::join of the current directory and a user-supplied name
AbsoluteOf(name) ==
    CASE name = "hello" -> Cwd \o "/" \o "hello"
      [] name = "/tmp/hello" -> "/tmp/hello"
      [] name = "/tmp/hello-original" -> "/tmp/hello-original"
      [] name = "hello-original" -> Cwd \o "/" \o "hello-original"
      [] OTHER -> name

\* PathBuf::file_name of a canonical path
FileNameOf(path) ==
    CASE path = "/tmp/hello" -> "hello"
      [] path = "/tmp/hello-original" -> "hello-original"
      [] path = "/tmp/my prog" -> "my prog"
      [] path = "/tmp/it's" -> "it's"

\* PathBuf::pop of a canonical path: its parent directory
ParentOf(path) ==
    CASE path = "/tmp/hello" -> "/tmp"
      [] path = "/tmp/hello-original" -> "/tmp"
      [] path = "/tmp/my prog" -> "/tmp"
      [] path = "/tmp/it's" -> "/tmp"

get_debuggee_backup_name(debuggee_filename) == debuggee_filename \o "-original"

TargetPath == "/tmp/hello"
BackupPath == get_debuggee_backup_name(TargetPath)
Paths == {TargetPath, BackupPath}

----------------------------------------------------------------------------
(* Files. *)

\* permission bits, as the classes of bit the code and the kernel look at
ModeBits == {"r", "w", "x"}

NoFile == [exists |-> FALSE, kind |-> "none", mode |-> {}, lines |-> <<>>]

RegularFile(mode, lines) ==
    [exists |-> TRUE, kind |-> "file", mode |-> mode, lines |-> lines]

Directory(mode) ==
    [exists |-> TRUE, kind |-> "dir", mode |-> mode, lines |-> <<>>]

\* a line that BufRead::lines yields as Err (bytes that are not UTF-8)
ErrLine == "<not utf-8>"

\* the first two lines of resources/wrapper.sh
TemplateLine1 == "#!/bin/sh"
TemplateLine2 == "# a wrapper script generated by dbgee"

\* wrapper.sh with %run_cmd% and %debuggee% replaced; both tokens are in the body
wrapper_sh(run_command, debuggee_path) ==
    <<TemplateLine1, TemplateLine2, run_command, "\"" \o debuggee_path \o "\"">>

\* the mode open(O_CREAT) gives a new file (0666 and a umask of 022)
CreateMode == {"r", "w"}

\* File::open for reading
CanOpen(file) == file.exists /\ (root \/ "r" \in file.mode)

\* BufReader::lines of an opened file: a directory opens, and every read of it fails
LinesOf(file) ==
    IF file.kind = "dir" THEN <<ErrLine, ErrLine>> ELSE file.lines

\* Result::unwrap_or_default of one item of lines()
unwrap_or_default(lresult) == IF lresult = ErrLine THEN "" ELSE lresult

\* Iterator::take(2)
Take2(s) == SubSeq(s, 1, IF Len(s) < 2 THEN Len(s) ELSE 2)

\* collect::<String>() of a sequence of strings: they are joined with nothing between
RECURSIVE CollectString(_)
CollectString(s) ==
    IF s = <<>> THEN "" ELSE Head(s) \o CollectString(Tail(s))

check_if_wrapped(f, name) ==
    LET wrapper_signature == CollectString(<<TemplateLine1, TemplateLine2>>)
        file == f[AbsoluteOf(name)]
    IN  IF ~CanOpen(file) THEN FALSE
        ELSE LET lines == Take2(LinesOf(file))
                 signature ==
                     CollectString([i \in 1..Len(lines) |-> unwrap_or_default(lines[i])])
             IN  signature = wrapper_signature

is_executable(file) == file.exists /\ file.kind = "file" /\ "x" \in file.mode

\* fs::canonicalize: fails when the path does not exist
get_abspath(f, name) ==
    IF f[AbsoluteOf(name)].exists
    THEN [ok |-> TRUE, path |-> AbsoluteOf(name)]
    ELSE [ok |-> FALSE, path |-> ""]

get_valid_executable_path(f, name) ==
    LET abspath == get_abspath(f, name)
    IN  IF ~abspath.ok THEN abspath
        ELSE IF ~is_executable(f[abspath.path]) THEN [ok |-> FALSE, path |-> ""]
        ELSE abspath

\* get_valid_executable_path of the first dbgee (src/main.rs of the repository's
\* first crate): it bails only for what is no regular file and has an execute bit
get_valid_executable_path_first(f, name) ==
    LET abspath == get_abspath(f, name)
    IN  IF ~abspath.ok THEN abspath
        ELSE IF f[abspath.path].kind # "file" /\ "x" \in f[abspath.path].mode
        THEN [ok |-> FALSE, path |-> ""]
        ELSE abspath

----------------------------------------------------------------------------
(* File system calls: each returns whether it succeeded and the file system *)
(* it leaves.  The directory itself is writable.                            *)

FsOk(f) == [ok |-> TRUE, fs |-> f]
FsErr(f) == [ok |-> FALSE, fs |-> f]

\* rename(2): replaces an existing destination; a file cannot replace a directory
FsRename(f, from, to) ==
    IF ~f[from].exists THEN FsErr(f)
    ELSE IF f[to].exists /\ f[to].kind # f[from].kind THEN FsErr(f)
    ELSE FsOk([f EXCEPT ![to] = f[from], ![from] = NoFile])

\* fs::write: creates the file, or truncates one it may write to; the mode of an
\* existing file is kept
FsWrite(f, path, lines) ==
    IF ~f[path].exists THEN FsOk([f EXCEPT ![path] = RegularFile(CreateMode, lines)])
    ELSE IF f[path].kind = "file" /\ (root \/ "w" \in f[path].mode)
         THEN FsOk([f EXCEPT ![path].lines = lines])
         ELSE FsErr(f)

FsSetPermissions(f, path, mode) ==
    IF ~f[path].exists THEN FsErr(f)
    ELSE FsOk([f EXCEPT ![path].mode = mode])

\* unlink(2)
FsRemoveFile(f, path) ==
    IF f[path].exists /\ f[path].kind = "file"
    THEN FsOk([f EXCEPT ![path] = NoFile])
    ELSE FsErr(f)

----------------------------------------------------------------------------
(* The wrapper installer. *)

wrap_debuggee_binary(f, debuggee, run_command) ==
    IF check_if_wrapped(f, debuggee) THEN FsErr(f)
    ELSE LET valid == get_valid_executable_path(f, debuggee)
         IN  IF ~valid.ok THEN FsErr(f)
             ELSE LET debuggee_path == valid.path
                      wrapper == wrapper_sh(run_command, debuggee_path)
                      debuggee_backup ==
                          ParentOf(debuggee_path) \o "/"
                            \o get_debuggee_backup_name(FileNameOf(debuggee_path))
                      debuggee_perm == f[debuggee_path].mode
                      renamed == FsRename(f, debuggee_path, debuggee_backup)
                      written == FsWrite(renamed.fs, debuggee_path, wrapper)
                  IN  IF ~renamed.ok THEN renamed
                      ELSE IF ~written.ok THEN written
                      ELSE FsSetPermissions(written.fs, debuggee_path, debuggee_perm)

unwrap_debuggee_binary(f, debuggee) ==
    LET valid == get_valid_executable_path(f, debuggee)
    IN  IF ~valid.ok THEN FsErr(f)
        ELSE IF ~check_if_wrapped(f, debuggee) THEN FsErr(f)
        ELSE LET wrapper_path == valid.path
                 debuggee_path ==
                     ParentOf(wrapper_path) \o "/"
                       \o get_debuggee_backup_name(FileNameOf(wrapper_path))
                 removed == FsRemoveFile(f, wrapper_path)
             IN  IF ~removed.ok THEN removed
                 ELSE FsRename(removed.fs, debuggee_path, wrapper_path)

----------------------------------------------------------------------------
(* The files a debuggee directory can hold at the start. *)

RunCommands == {"dbgee run -- /tmp/hello-original", "dbgee -l debug run -t tmuxw -- /tmp/hello-original"}

\* a compiled binary: its bytes are not UTF-8 text
ProgElf == <<ErrLine>>
\* a shell script in the wild
ProgScript == <<TemplateLine1, "some scripts in the wild">>
\* a one-line file: the two template lines without the line break between them
ProgJoined == <<TemplateLine1 \o TemplateLine2>>
\* a file that carries the two signature lines
ProgSigned == <<TemplateLine1, TemplateLine2, "some scripts">>

Programs == {ProgElf, ProgScript, ProgJoined, ProgSigned}

\* 0755, 0555, 0111, 0644
Modes == {{"r", "w", "x"}, {"r", "x"}, {"x"}, {"r", "w"}}

TargetFiles ==
    {NoFile, Directory({"r", "w", "x"})}
      \cup {RegularFile(m, p) : m \in Modes, p \in Programs}

BackupFiles == {NoFile, RegularFile({"r", "w"}, <<"another file">>)}

InitFs ==
    /\ root \in BOOLEAN
    /\ fs \in {[p \in Paths |-> IF p = TargetPath THEN t ELSE b] :
                 t \in TargetFiles, b \in BackupFiles}
    /\ fs0 = fs

----------------------------------------------------------------------------
(* The dbgee process: its command line, the adapters and the processes.     *)

\* -d / --debugger
Debuggers == {"gdb", "lldb", "dlv", "stop-and-write-pid", "debugpy"}

\* -t / --terminal
Terminals == {"tmuxw", "tmuxp", "vscode"}

\* the command after `set <debuggee> --`: none, or one
StartCmds == {<<>>, <<"make">>}

\* the parsed command lines (debuggee arguments are left out: no code modelled
\* here looks at them)
Commands ==
    {[sub |-> "run", debugger |-> d, terminal |-> t, debuggee |-> n, start_cmd |-> <<>>] :
        d \in Debuggers, t \in Terminals, n \in DebuggeeNames}
      \cup {[sub |-> "set", debugger |-> d, terminal |-> "tmuxw", debuggee |-> n,
             start_cmd |-> c] : d \in Debuggers, n \in DebuggeeNames, c \in StartCmds}
      \cup {[sub |-> "unset", debugger |-> d, terminal |-> "", debuggee |-> n,
             start_cmd |-> <<>>] : d \in Debuggers, n \in DebuggeeNames}
      \cup {[sub |-> "run", debugger |-> "auto", terminal |-> t, debuggee |-> n,
             start_cmd |-> <<>>] : t \in {"tmuxw", "vscode"}, n \in DebuggeeNames}
      \cup {[sub |-> sub, debugger |-> "auto", terminal |-> "", debuggee |-> "hello",
             start_cmd |-> <<>>] : sub \in {"set", "unset"}}

NoCommand == [sub |-> "", debugger |-> "", terminal |-> "", debuggee |-> "", start_cmd |-> <<>>]

\* the pids fork and spawn hand out
Pids == {4711}

\* the exit statuses a debuggee or a debugger server ends with
ExitStatuses == {0, 3}

\* the port both server-style debuggers listen on
DebuggerPort == 5679

\* Result<T>
Ok(v) == [ok |-> TRUE, value |-> v]
Err(msg) == [ok |-> FALSE, value |-> msg]

\* a Debugger object; an Option field is <<>> (None) or <<v>> (Some(v))
NewDebugger(kind) ==
    [kind |-> kind, debuggee_pid |-> <<>>, debuggee_path |-> <<>>, port |-> <<>>]

NoDebugger == NewDebugger("")

GdbCompatible == {"gdb", "lldb"}

\* a build_attach_commandline that asks every adapter for the pid of the debuggee
build_attach_commandline_by_pid(a) ==
    IF a.kind \in {"stop-and-write-pid", "debugpy"} \/ a.debuggee_pid = <<>>
    THEN Err("[BUG] uninitialized")
    ELSE Ok(<<a.kind, "-p", ToString(a.debuggee_pid[1])>>)

build_attach_commandline(a) ==
    CASE a.kind = "gdb" ->
           IF a.debuggee_pid = <<>> \/ a.debuggee_path = <<>>
           THEN Err("[BUG] uninitialized GdbCompatibleDebugger")
           ELSE Ok(<<"gdb", "-tui", "-p", ToString(a.debuggee_pid[1])>>)
      [] a.kind = "lldb" ->
           IF a.debuggee_pid = <<>> \/ a.debuggee_path = <<>>
           THEN Err("[BUG] uninitialized GdbCompatibleDebugger")
           ELSE Ok(<<"lldb", "-p", ToString(a.debuggee_pid[1])>>)
      [] a.kind = "dlv" ->
           IF a.port = <<>>
           THEN Err("[BUG] uninitialized DelveDebugger")
           ELSE Ok(<<"dlv", "connect", "localhost:" \o ToString(a.port[1])>>)
      [] a.kind = "stop-and-write-pid" ->
           Err("[BUG] build_attach_commandline should not be called for StopAndWritePidDebugger")
      [] a.kind = "debugpy" ->
           Err("[BUG] build_attach_commandline should not be called for PythonDebugger")

\* the HashMap of attach information, as a function from its keys
build_attach_information(a) ==
    CASE a.kind \in GdbCompatible ->
           IF a.debuggee_pid = <<>>
           THEN Err("[BUG] uninitialized GdbCompatibleDebugger")
           ELSE IF a.debuggee_path = <<>>
           THEN Err("[BUG] uninitialized GdbCompatibleDebugger")
           ELSE Ok([debuggerTypeHint |-> a.kind,
                    pid |-> ToString(a.debuggee_pid[1]),
                    programName |-> a.debuggee_path[1]])
      [] a.kind = "dlv" ->
           IF a.port = <<>>
           THEN Err("[BUG] uninitialized DelveDebugger")
           ELSE Ok([debuggerTypeHint |-> "go", debuggerPort |-> ToString(a.port[1])])
      [] a.kind = "stop-and-write-pid" ->
           Err("[BUG] butild_attach_information should not be called for StopAndWritePidDebugger")
      [] a.kind = "debugpy" ->
           IF a.port = <<>>
           THEN Err("[BUG] PythonDebugger.port is not initializaed")
           ELSE Ok([debuggerTypeHint |-> "python", debuggerPort |-> ToString(a.port[1])])

\* a process dbgee started.  state: "forked" (runs dbgee's code after fork),
\* "trap" (ptrace-stopped by the SIGTRAP of a traced exec), "sig_stop"
\* (ptrace-stopped by another signal, before the exec), "stopped" (stopped by
\* SIGSTOP, traced by nobody), "running", "exited", "killed", "reaped"
Process(kind, pid, state, image, disposition) ==
    [kind |-> kind, pid |-> pid, state |-> state, image |-> image, traced |-> FALSE,
     pending_stop |-> FALSE, user_code |-> FALSE, sigint |-> disposition, status |-> 0]

NoChild == Process("", 0, "none", "", "default")

\* what waitpid reports of a child in this state (it blocks in the other states)
StatusOf(c) ==
    CASE c.state = "trap" -> [kind |-> "Stopped", signal |-> "SIGTRAP", status |-> 0]
      [] c.state = "sig_stop" -> [kind |-> "Stopped", signal |-> "SIGUSR1", status |-> 0]
      [] c.state = "exited" -> [kind |-> "Exited", signal |-> "", status |-> c.status]
      [] c.state = "killed" -> [kind |-> "Signaled", signal |-> "SIGKILL", status |-> 0]

\* the error results of waitpid: no such child, and interrupted by a signal
WaitECHILD == [kind |-> "ECHILD", signal |-> "", status |-> 0]
WaitEINTR == [kind |-> "EINTR", signal |-> "", status |-> 0]

\* the kernel resumes a process: a pending SIGSTOP stops it before it runs any
\* instruction in user mode, otherwise it runs
Resumed(c) ==
    IF c.pending_stop
    THEN [c EXCEPT !.state = "stopped", !.pending_stop = FALSE]
    ELSE [c EXCEPT !.state = "running", !.user_code = TRUE]

\* no dbgee process has been started
\* hook mode: the pids of the traced command and of a descendant of it
HookPids == {100, 101}

\* how many times a process of the tree execs
MaxExecs == 2

\* a process of the traced tree.  state: "none" (not born), "running", "trapped"
\* (stopped by the SIGTRAP of an execve, not yet waited for), "forked" (stopped
\* in a fork event, not yet waited for), "born" (a new traced child that has
\* not yet stopped), "forkstopped" (the new child, stopped before the delivery
\* of its first SIGSTOP), "sigstop" (stopped before the delivery of SIGUSR1),
\* "groupstop" (a tracee stopped by a delivered SIGSTOP), "exited" and
\* "signaled" (zombies), "reaped", "stopped" (untraced, stopped by SIGSTOP);
\* exe: /proc/pid/exe, "" before the execve; execs: how many times it has
\* exec'd; delivered: the signals the tracer
\* has let the process see
NoTracee == [state |-> "none", exe |-> "", execs |-> 0, traced |-> FALSE, forked |-> <<>>,
             delivered |-> <<>>]

NoHook == [start_command_pid |-> <<>>, tracefork |-> FALSE,
           hooked_command_pid |-> <<>>, hooked_command_path |-> <<>>]

\* no call of get_cached_command_output yet
NoLookup == [key |-> "", result |-> Err(""), ran |-> FALSE]

\* the dbgee processes that install concurrently
InstallerIds == {1, 2}

\* no installer has made a step of wrap_debuggee_binary
NoInstallers == [p \in InstallerIds |-> [pc |-> "idle", debuggee_perm |-> {}, result |-> ""]]

\* the workers of a process that has not opened a VsCode terminal
NoWriters == [information |-> "none", request |-> "none"]

NoProcess ==
    /\ pc = "idle"
    /\ cmd = NoCommand
    /\ adapter = NoDebugger
    /\ sigint = "default"
    /\ child = NoChild
    /\ debuggee_abspath = <<>>
    /\ events = <<>>
    /\ exit_code = <<>>
    /\ pid_file = <<>>
    /\ runs = 0
    /\ sigints = 0
    /\ tracees = [p \in HookPids |-> NoTracee]
    /\ hook = NoHook
    /\ argv = <<>>
    /\ writers = NoWriters
    /\ cmd_cache = <<>>
    /\ lookup = NoLookup
    /\ scan = <<>>
    /\ installers = NoInstallers

----------------------------------------------------------------------------
(* SpecInstaller: the installer's two entry points, called in any order. *)

InitInstaller ==
    /\ InitFs
    /\ calls = <<>>
    /\ NoProcess
    /\ units = <<>>

Install(debuggee, run_command) ==
    /\ Len(calls) < MaxCalls
    /\ LET r == wrap_debuggee_binary(fs, debuggee, run_command)
       IN  /\ fs' = r.fs
           /\ calls' = Append(calls, [op |-> "install", ok |-> r.ok, pre |-> fs])
    /\ UNCHANGED <<root, fs0, procvars, pid_file, runs, sigints>>
    /\ UNCHANGED <<hookvars, argv, writers, cachevars>>

Uninstall(debuggee) ==
    /\ Len(calls) < MaxCalls
    /\ LET r == unwrap_debuggee_binary(fs, debuggee)
       IN  /\ fs' = r.fs
           /\ calls' = Append(calls, [op |-> "uninstall", ok |-> r.ok, pre |-> fs])
    /\ UNCHANGED <<root, fs0, procvars, pid_file, runs, sigints>>
    /\ UNCHANGED <<hookvars, argv, writers, cachevars>>

NextInstaller ==
    \/ \E d \in DebuggeeNames, c \in RunCommands : Install(d, c)
    \/ \E d \in DebuggeeNames : Uninstall(d)

SpecInstaller == InitInstaller /\ [][NextInstaller]_vars

\* the file system a call left
PostOf(i) == IF i = Len(calls) THEN fs ELSE calls[i + 1].pre

\* what a shim is: a regular file whose first two lines are the template's
IsShim(file) ==
    /\ file.exists /\ file.kind = "file"
    /\ Len(file.lines) >= 2
    /\ file.lines[1] = TemplateLine1
    /\ file.lines[2] = TemplateLine2


\* a Go binary, and a Python script
ProgGo == <<ErrLine, "Go BuildID">>
ProgPython == <<"#!/usr/bin/env python3", "print(1)">>

\* the file a name given to a command stands for; a name with no file is no file
FileAt(f, name) ==
    IF name \in {"hello", "/tmp/hello", "hello-original", "/tmp/hello-original"}
    THEN f[AbsoluteOf(name)]
    ELSE NoFile

\* the words of the output of `file <name>` that the adapters look for
file_output(f, name) ==
    LET file == FileAt(f, name)
    IN  IF ~file.exists \/ file.kind = "dir" \/ ~CanOpen(file) \/ file.lines = <<>> THEN {}
        ELSE IF file.lines = ProgGo THEN {"ELF", "Go "}
        ELSE IF file.lines[1] = ErrLine THEN {"ELF"}
        ELSE IF file.lines = ProgPython THEN {"Python"}
        ELSE IF file.lines[1] \in {TemplateLine1, ProgJoined[1]} THEN {"shell"}
        ELSE {}

\* the commands the adapters and the detection look for in PATH ("debugpy":
\* a python with the debugpy module)
Backends == {"dlv", "gdb", "lldb", "debugpy", "file", "go"}

\* the sets of them that are installed
InstalledSets ==
    {Backends, {"file", "debugpy"}, {"gdb", "lldb"}, {}}

\* the constructor of an adapter: StopAndWritePidDebugger::new cannot fail
Constructs(kind, installed) == kind = "stop-and-write-pid" \/ kind \in installed

\* an is_debuggee_surely_supported in which StopAndWritePid is no last resort
is_debuggee_surely_supported_by_file_only(kind, f, debuggee, installed) ==
    IF kind = "stop-and-write-pid" THEN "false"
    ELSE IF "file" \notin installed THEN "Err"
    ELSE IF kind \in GdbCompatible /\ "ELF" \in file_output(f, debuggee) THEN "true"
    ELSE IF kind = "dlv" /\ "Go " \in file_output(f, debuggee) THEN "true"
    ELSE IF kind = "debugpy" /\ "Python" \in file_output(f, debuggee) THEN "true"
    ELSE "false"

\* Debugger::is_debuggee_surely_supported; the result is "true", "false" or
\* "Err" (the file command could not be run)
RECURSIVE is_debuggee_surely_supported(_, _, _, _)
is_debuggee_surely_supported(kind, f, debuggee, installed) ==
    IF kind = "stop-and-write-pid" THEN "true"
    ELSE IF "file" \notin installed THEN "Err"
    ELSE LET out == file_output(f, debuggee)
             unwrapped ==
                 IF "shell" \in out /\ check_if_wrapped(f, debuggee)
                 THEN is_debuggee_surely_supported(
                          kind, f, get_debuggee_backup_name(debuggee), installed)
                 ELSE "false"
         IN  CASE kind \in GdbCompatible ->
                    IF "ELF" \in out \/ "Mach-O" \in out THEN "true" ELSE unwrapped
               [] kind = "dlv" ->
                    IF "Go " \in out THEN "true"
                    ELSE IF "go" \in installed /\ FileAt(f, debuggee).lines = ProgGo
                         THEN "true"
                    ELSE unwrapped
               [] kind = "debugpy" ->
                    IF "Python" \in out THEN "true" ELSE "false"

\* the candidates of detect_debugger, in its order
Candidates(os) ==
    IF os = "linux" THEN <<"dlv", "gdb", "debugpy", "stop-and-write-pid">>
    ELSE <<"dlv", "lldb", "debugpy", "stop-and-write-pid">>

\* a detect_debugger that returns the first candidate it could construct
detect_from_first_built(i, os, f, debuggee, installed) ==
    LET built == {j \in i..Len(Candidates(os)) : Constructs(Candidates(os)[j], installed)}
        first == CHOOSE j \in built : \A k \in built : j <= k
    IN  [kind |-> Candidates(os)[first],
         did |-> [j \in 1..(first - i + 1) |->
                    IF j < first - i + 1
                    THEN "build(" \o Candidates(os)[i + j - 1] \o "):Err"
                    ELSE "supports(" \o Candidates(os)[first] \o "):"
                           \o is_debuggee_surely_supported(
                                  Candidates(os)[first], f, debuggee, installed)]]

\* the loop of detect_debugger from candidate i on: the adapter it returns
\* ("" when it bails), and what it did
RECURSIVE detect_from(_, _, _, _, _)
detect_from(i, os, f, debuggee, installed) ==
    IF i > Len(Candidates(os)) THEN [kind |-> "", did |-> <<>>]
    ELSE LET kind == Candidates(os)[i]
             rest == detect_from(i + 1, os, f, debuggee, installed)
             supported == is_debuggee_surely_supported(kind, f, debuggee, installed)
         IN  IF ~Constructs(kind, installed)
             THEN [kind |-> rest.kind, did |-> <<"build(" \o kind \o "):Err">> \o rest.did]
             ELSE IF supported = "true"
             THEN [kind |-> kind, did |-> <<"supports(" \o kind \o "):true">>]
             ELSE [kind |-> rest.kind,
                   did |-> <<"supports(" \o kind \o "):" \o supported>> \o rest.did]

detect_debugger(os, f, debuggee, installed) == detect_from(1, os, f, debuggee, installed)

----------------------------------------------------------------------------
(* Spec: dbgee processes, one after the other, over the same directory.     *)

\* how many dbgee processes one behaviour starts
MaxRuns == 2

\* how many SIGINTs one behaviour sends to dbgee
MaxSigints == 1

\* the debuggees dbgee is started on, in a directory that holds nothing else: no
\* file, a directory, a binary of mode 0755 and one of mode 0111, a script of
\* mode 0644 and one of mode 0755, the executable one-line file, a Go binary, a
\* Python script
Debuggees ==
    {NoFile, Directory({"r", "w", "x"}),
     RegularFile({"r", "w", "x"}, ProgElf), RegularFile({"x"}, ProgElf),
     RegularFile({"r", "w"}, ProgScript), RegularFile({"r", "w", "x"}, ProgScript),
     RegularFile({"r", "w", "x"}, ProgJoined),
     RegularFile({"r", "w", "x"}, ProgGo), RegularFile({"r", "w", "x"}, ProgPython)}

Init ==
    /\ root \in BOOLEAN
    /\ fs \in {[p \in Paths |-> IF p = TargetPath THEN t ELSE NoFile] : t \in Debuggees}
    /\ fs0 = fs
    /\ calls = <<>>
    /\ NoProcess
    /\ units = <<>>

\* main: the exit code of the process
main(result) == IF result.ok THEN result.value ELSE 1

\* run returns to main with this result, after doing the things in es
Finish(es, result) ==
    /\ pc' = "exited"
    /\ exit_code' = <<main(result)>>
    /\ events' = events \o es \o <<IF result.ok THEN "Ok" ELSE "Err">>

\* a user starts dbgee
Invoke(c) ==
    /\ pc \in {"idle", "exited", "killed"}
    /\ runs < MaxRuns
    /\ pc' = "build_debugger"
    /\ cmd' = c
    /\ adapter' = NoDebugger
    /\ sigint' = "default"
    /\ child' = NoChild
    /\ debuggee_abspath' = <<>>
    /\ events' = <<>>
    /\ exit_code' = <<>>
    /\ runs' = runs + 1
    /\ writers' = NoWriters
    /\ UNCHANGED <<fs, root, fs0, calls, pid_file, sigints>>
    /\ UNCHANGED <<hookvars, argv, cachevars>>

\* build_debugger for a debugger named on the command line; in_path: whether the
\* backend's command is in PATH (and, for debugpy, the module can be imported)
BuildDebugger(in_path) ==
    /\ pc = "build_debugger"
    /\ cmd.debugger # "auto"
    /\ IF cmd.debugger = "stop-and-write-pid" \/ in_path
       THEN /\ adapter' = NewDebugger(cmd.debugger)
            /\ pc' = "check_executable"
            /\ UNCHANGED <<events, exit_code>>
       ELSE /\ Finish(<<>>, Err("is not in PATH"))
            /\ UNCHANGED adapter
    /\ UNCHANGED <<fsvars, cmd, sigint, child, debuggee_abspath, pid_file, runs, sigints>>
    /\ UNCHANGED <<hookvars, argv, writers, cachevars>>

\* build_debugger when no debugger is named: detect_debugger.  os: the platform
\* dbgee was built for; installed: the commands in PATH
DetectDebugger(os, installed) ==
    /\ pc = "build_debugger"
    /\ cmd.debugger = "auto"
    /\ LET detected == detect_debugger(os, fs, cmd.debuggee, installed)
       IN  IF detected.kind # ""
           THEN /\ adapter' = NewDebugger(detected.kind)
                /\ pc' = "check_executable"
                /\ events' = events \o <<"detect_debugger:" \o os>> \o detected.did
                /\ UNCHANGED exit_code
           ELSE /\ Finish(<<"detect_debugger:" \o os>> \o detected.did,
                          Err("Failed to detect the right debugger"))
                /\ UNCHANGED adapter
    /\ UNCHANGED <<fsvars, cmd, sigint, child, debuggee_abspath, pid_file, runs, sigints>>
    /\ UNCHANGED <<hookvars, argv, writers, cachevars>>

\* run: the debuggee must be an executable file
CheckExecutable ==
    /\ pc = "check_executable"
    /\ IF is_executable(fs[AbsoluteOf(cmd.debuggee)])
       THEN /\ pc' = cmd.sub
            /\ UNCHANGED <<events, exit_code>>
       ELSE Finish(<<>>, Err("the debugee is not an executable file."))
    /\ UNCHANGED <<fsvars, cmd, adapter, sigint, child, debuggee_abspath, pid_file, runs,
                   sigints>>
    /\ UNCHANGED <<hookvars, argv, writers, cachevars>>

get_path_of_unset_debuggee(f, debuggee) ==
    LET abspath == get_abspath(f, debuggee)
    IN  IF ~abspath.ok THEN abspath
        ELSE IF check_if_wrapped(f, debuggee)
        THEN [ok |-> TRUE, path |-> get_debuggee_backup_name(abspath.path)]
        ELSE abspath

\* Debugger::run of the GDB-like, LLDB-like, Delve and StopAndWritePid adapters,
\* up to the launch: the path to launch; Delve records its port here
RunResolve ==
    /\ pc = "run"
    /\ adapter.kind # "debugpy"
    /\ LET path == get_path_of_unset_debuggee(fs, cmd.debuggee)
       IN  IF ~path.ok
           THEN /\ Finish(<<>>, Err("does not exist"))
                /\ UNCHANGED <<adapter, debuggee_abspath>>
           ELSE /\ debuggee_abspath' = <<path.path>>
                /\ adapter' = IF adapter.kind = "dlv"
                              THEN [adapter EXCEPT !.port = <<DebuggerPort>>]
                              ELSE adapter
                /\ pc' = IF adapter.kind = "dlv" THEN "spawn" ELSE "ignore_sigint"
                /\ UNCHANGED <<events, exit_code>>
    /\ UNCHANGED <<fsvars, cmd, sigint, child, pid_file, runs, sigints>>
    /\ UNCHANGED <<hookvars, argv, writers, cachevars>>

\* PythonDebugger::run up to the launch: the port, and the debuggee as it was given
\* a PythonDebugger::run that records no port before it launches the server
RunPython_without_port ==
    /\ pc = "run"
    /\ adapter.kind = "debugpy"
    /\ debuggee_abspath' = <<cmd.debuggee>>
    /\ pc' = "spawn"
    /\ UNCHANGED <<fsvars, cmd, adapter, sigint, child, events, exit_code, pid_file, runs,
                   sigints>>
    /\ UNCHANGED <<hookvars, argv, writers, cachevars>>

RunPython ==
    /\ pc = "run"
    /\ adapter.kind = "debugpy"
    /\ adapter' = [adapter EXCEPT !.port = <<DebuggerPort>>]
    /\ debuggee_abspath' = <<cmd.debuggee>>
    /\ pc' = "spawn"
    /\ UNCHANGED <<fsvars, cmd, sigint, child, events, exit_code, pid_file, runs, sigints>>
    /\ UNCHANGED <<hookvars, argv, writers, cachevars>>

\* a run_and_stop_dbgee that forks without ignore_sigint
IgnoreSigint_skipped ==
    /\ pc = "ignore_sigint"
    /\ pc' = "fork"
    /\ UNCHANGED <<fsvars, cmd, adapter, sigint, child, debuggee_abspath, events,
                   exit_code, pid_file, runs, sigints>>
    /\ UNCHANGED <<hookvars, argv, writers, cachevars>>

\* run_and_stop_dbgee: ignore_sigint before the fork
IgnoreSigint ==
    /\ pc = "ignore_sigint"
    /\ sigint' = "ignore"
    /\ pc' = "fork"
    /\ UNCHANGED <<fsvars, cmd, adapter, child, debuggee_abspath, events, exit_code,
                   pid_file, runs, sigints>>
    /\ UNCHANGED <<hookvars, argv, writers, cachevars>>

\* fork_exec_stop: the validity check and the fork
Fork(fork_ok, pid) ==
    /\ pc = "fork"
    /\ IF ~get_valid_executable_path(fs, debuggee_abspath[1]).ok
       THEN /\ Finish(<<>>, Err("the debuggee is not executable"))
            /\ UNCHANGED child
       ELSE IF ~fork_ok
       THEN /\ Finish(<<"fork">>, Err("fork failed."))
            /\ UNCHANGED child
       ELSE /\ child' = Process("debuggee", pid, "forked", "dbgee", sigint)
            /\ pc' = "waitpid"
            /\ events' = Append(events, "fork")
            /\ UNCHANGED exit_code
    /\ UNCHANGED <<fsvars, cmd, adapter, sigint, debuggee_abspath, pid_file, runs, sigints>>
    /\ UNCHANGED <<hookvars, argv, writers, cachevars>>

\* fork_exec_stop, the child: traceme and execv.  outcome: "exec" (the traced
\* exec stops the child with SIGTRAP), "failed" (traceme or execv failed: the
\* child returns the error to its main and exits with 1), "signal" (a signal
\* stops the traced child before its exec)
ChildExec(outcome) ==
    /\ child.kind = "debuggee"
    /\ child.state = "forked"
    /\ child' =
         CASE outcome = "exec" ->
                [child EXCEPT !.state = "trap", !.traced = TRUE,
                              !.image = debuggee_abspath[1]]
           [] outcome = "failed" ->
                [child EXCEPT !.state = "exited", !.status = main(Err("exec failed"))]
           [] outcome = "signal" ->
                [child EXCEPT !.state = "sig_stop", !.traced = TRUE]
    /\ UNCHANGED <<fsvars, pc, cmd, adapter, sigint, debuggee_abspath, events, exit_code,
                   pid_file, runs, sigints>>
    /\ UNCHANGED <<hookvars, argv, writers, cachevars>>

\* fork_exec_stop, the parent: waitpid; a status other than Stopped(SIGTRAP) is
\* only warned about.  The wait reaps a child that has exited.
WaitForTrap ==
    /\ pc = "waitpid"
    /\ child.state \in {"trap", "sig_stop", "exited"}
    /\ events' = Append(events, "waitpid:" \o StatusOf(child).kind)
    /\ child' = IF child.state = "exited" THEN [child EXCEPT !.state = "reaped"] ELSE child
    /\ pc' = "kill"
    /\ UNCHANGED <<fsvars, cmd, adapter, sigint, debuggee_abspath, exit_code, pid_file,
                   runs, sigints>>
    /\ UNCHANGED <<hookvars, argv, writers, cachevars>>

\* a fork_exec_stop that drops the result of kill(pid, SIGSTOP)
SendStop_unchecked ==
    /\ pc = "kill"
    /\ child' = IF child.state = "reaped" THEN child ELSE [child EXCEPT !.pending_stop = TRUE]
    /\ pc' = "detach"
    /\ UNCHANGED <<fsvars, cmd, adapter, sigint, debuggee_abspath, events, exit_code,
                   pid_file, runs, sigints>>
    /\ UNCHANGED <<hookvars, argv, writers, cachevars>>

\* a fork_exec_stop that detaches without sending SIGSTOP first
SendStop_without_kill ==
    /\ pc = "kill"
    /\ pc' = "detach"
    /\ UNCHANGED <<fsvars, cmd, adapter, sigint, child, debuggee_abspath, events, exit_code,
                   pid_file, runs, sigints>>
    /\ UNCHANGED <<hookvars, argv, writers, cachevars>>

\* fork_exec_stop: kill(pid, SIGSTOP); it fails when the child was reaped
SendStop ==
    /\ pc = "kill"
    /\ IF child.state = "reaped"
       THEN /\ Finish(<<>>, Err("Unexpected error. Sending a signal failed"))
            /\ UNCHANGED child
       ELSE /\ child' = [child EXCEPT !.pending_stop = TRUE]
            /\ pc' = "detach"
            /\ UNCHANGED <<events, exit_code>>
    /\ UNCHANGED <<fsvars, cmd, adapter, sigint, debuggee_abspath, pid_file, runs, sigints>>
    /\ UNCHANGED <<hookvars, argv, writers, cachevars>>

\* fork_exec_stop: ptrace::detach(pid, None) ends the tracing and resumes the child
Detach ==
    /\ pc = "detach"
    /\ child' = Resumed([child EXCEPT !.traced = FALSE])
    /\ pc' = "set_handler"
    /\ UNCHANGED <<fsvars, cmd, adapter, sigint, debuggee_abspath, events, exit_code,
                   pid_file, runs, sigints>>
    /\ UNCHANGED <<hookvars, argv, writers, cachevars>>

\* run_and_stop_dbgee: kill9_child_by_sigint, and the return of the pid
InstallKill9(handler_ok) ==
    /\ pc = "set_handler"
    /\ IF handler_ok
       THEN /\ sigint' = "kill9"
            /\ pc' = "started"
            /\ events' = Append(events, "run_and_stop_dbgee:Ok")
            /\ UNCHANGED exit_code
       ELSE /\ Finish(<<>>, Err("ctrlc::set_handler failed"))
            /\ UNCHANGED sigint
    /\ UNCHANGED <<fsvars, cmd, adapter, child, debuggee_abspath, pid_file, runs, sigints>>
    /\ UNCHANGED <<hookvars, argv, writers, cachevars>>

\* GdbCompatibleDebugger::run after the controlled start: the pid and the path
RecordDebuggee ==
    /\ pc = "started"
    /\ adapter.kind \in GdbCompatible
    /\ adapter' = [adapter EXCEPT !.debuggee_pid = <<child.pid>>,
                                  !.debuggee_path = debuggee_abspath]
    /\ pc' = "open_terminal"
    /\ UNCHANGED <<fsvars, cmd, sigint, child, debuggee_abspath, events, exit_code,
                   pid_file, runs, sigints>>
    /\ UNCHANGED <<hookvars, argv, writers, cachevars>>

\* a StopAndWritePidDebugger::run that goes on to open the terminal it was given
WritePidFile_and_open(create_ok) ==
    /\ pc = "started"
    /\ adapter.kind = "stop-and-write-pid"
    /\ IF create_ok
       THEN /\ pid_file' = <<ToString(child.pid)>>
            /\ pc' = "open_terminal"
            /\ events' = Append(events, "write:/tmp/dbgee_pid")
            /\ UNCHANGED exit_code
       ELSE /\ Finish(<<>>, Err("File::create failed"))
            /\ UNCHANGED pid_file
    /\ UNCHANGED <<fsvars, cmd, adapter, sigint, child, debuggee_abspath, runs, sigints>>
    /\ UNCHANGED <<hookvars, argv, writers, cachevars>>

\* StopAndWritePidDebugger::run after the controlled start: the pid file
WritePidFile(create_ok) ==
    /\ pc = "started"
    /\ adapter.kind = "stop-and-write-pid"
    /\ IF create_ok
       THEN /\ pid_file' = <<ToString(child.pid)>>
            /\ pc' = "wait"
            /\ events' = events \o <<"write:/tmp/dbgee_pid", "Debugger::run:Ok">>
            /\ UNCHANGED exit_code
       ELSE /\ Finish(<<>>, Err("File::create failed"))
            /\ UNCHANGED pid_file
    /\ UNCHANGED <<fsvars, cmd, adapter, sigint, child, debuggee_abspath, runs, sigints>>
    /\ UNCHANGED <<hookvars, argv, writers, cachevars>>

\* a launch_debugger_server that returns right after the spawn
Spawn_without_wait(spawn_ok, pid) ==
    /\ pc = "spawn"
    /\ IF spawn_ok
       THEN /\ child' = [Process("server", pid, "running",
                                 IF adapter.kind = "dlv" THEN "dlv" ELSE "python", sigint)
                           EXCEPT !.user_code = TRUE]
            /\ pc' = "open_terminal"
            /\ events' = Append(events, "spawn")
            /\ UNCHANGED exit_code
       ELSE /\ Finish(<<>>, Err("failed to launch. Perhaps is port 5679 being used?"))
            /\ UNCHANGED child
    /\ UNCHANGED <<fsvars, cmd, adapter, sigint, debuggee_abspath, pid_file, runs, sigints>>
    /\ UNCHANGED <<hookvars, argv, writers, cachevars>>

\* launch_debugger_server: Command::spawn of dlv or python
Spawn(spawn_ok, pid) ==
    /\ pc = "spawn"
    /\ IF spawn_ok
       THEN /\ child' = [Process("server", pid, "running",
                                 IF adapter.kind = "dlv" THEN "dlv" ELSE "python", sigint)
                           EXCEPT !.user_code = TRUE]
            /\ pc' = "spawned"
            /\ events' = Append(events, "spawn")
            /\ UNCHANGED exit_code
       ELSE /\ Finish(<<>>, Err("failed to launch. Perhaps is port 5679 being used?"))
            /\ UNCHANGED child
    /\ UNCHANGED <<fsvars, cmd, adapter, sigint, debuggee_abspath, pid_file, runs, sigints>>
    /\ UNCHANGED <<hookvars, argv, writers, cachevars>>

\* launch_debugger_server: ignore_sigint after the spawn
ServerIgnoreSigint ==
    /\ pc = "spawned"
    /\ sigint' = "ignore"
    /\ pc' = "sleep"
    /\ UNCHANGED <<fsvars, cmd, adapter, child, debuggee_abspath, events, exit_code,
                   pid_file, runs, sigints>>
    /\ UNCHANGED <<hookvars, argv, writers, cachevars>>

\* launch_debugger_server: the one second of sleep, and the return of the pid
SleepElapsed ==
    /\ pc = "sleep"
    /\ pc' = "open_terminal"
    /\ events' = Append(events, "launch_debugger_server:Ok")
    /\ UNCHANGED <<fsvars, cmd, adapter, sigint, child, debuggee_abspath, exit_code,
                   pid_file, runs, sigints>>
    /\ UNCHANGED <<hookvars, argv, writers, cachevars>>

\* every Debugger::run opening the terminal it was given
TerminalOf_as_given(c, a) == c.terminal

\* the terminal Debugger::run opens: PythonDebugger ignores the one it was given
TerminalOf(c, a) ==
    IF a.kind = "debugpy" THEN "vscode" ELSE c.terminal

TmuxLayout_to_command(terminal) ==
    IF terminal = "tmuxw" THEN <<"new-window">> ELSE <<"splitw", "-h">>

\* the words of a command, as one line
RECURSIVE CommandLine(_)
CommandLine(words) ==
    IF words = <<>> THEN ""
    ELSE IF Len(words) = 1 THEN words[1]
    ELSE words[1] \o " " \o CommandLine(Tail(words))

\* the values of SUDO_USER: <<>> is an environment without it
SudoUsers == {<<>>, <<"alice">>}

\* a tmux_command that does not look at SUDO_USER
tmux_command_of_self(sudo_user) == <<"tmux">>

\* the tmux_command of Tmux::open
tmux_command(sudo_user) ==
    IF sudo_user # <<>> THEN <<"sudo", "-u", sudo_user[1], "tmux">> ELSE <<"tmux">>

\* Tmux::open.  sudo_user: the value of SUDO_USER; tmux_ok: `tmux ls` could be
\* started; active: it found a session; open_ok: the command that opens the
\* window, pane or session could be started
OpenTmux(sudo_user, tmux_ok, active, open_ok) ==
    /\ pc = "open_terminal"
    /\ TerminalOf(cmd, adapter) \in {"tmuxw", "tmuxp"}
    /\ LET debugger_cmd == build_attach_commandline(adapter)
           args == IF active THEN TmuxLayout_to_command(cmd.terminal)
                   ELSE <<"new-session">>
           probe == <<"terminal.open",
                      "SUDO_USER=" \o CommandLine(sudo_user),
                      "Command::status",
                      CommandLine(tmux_command(sudo_user) \o <<"ls">>)>>
           probed == probe \o <<IF active THEN "status:0" ELSE "status:1",
                                "build_attach_commandline">>
       IN  IF ~tmux_ok
           THEN Finish(probe, Err("Failed to launch tmux. Is tmux installed?"))
           ELSE IF ~debugger_cmd.ok
           THEN Finish(probed, debugger_cmd)
           ELSE IF ~open_ok
           THEN Finish(probed, Err("Failed to open a new tmux window"))
           ELSE /\ events' = events \o probed
                       \o <<IF active THEN "Command::status" ELSE "Command::spawn",
                            CommandLine(tmux_command(sudo_user) \o args
                                          \o debugger_cmd.value),
                            "Debugger::run:Ok">>
                /\ pc' = "wait"
                /\ UNCHANGED exit_code
    /\ UNCHANGED <<fsvars, cmd, adapter, sigint, child, debuggee_abspath, pid_file, runs,
                   sigints>>
    /\ UNCHANGED <<hookvars, argv, writers, cachevars>>

\* the values of VSCODE_GIT_IPC_HANDLE: "" is an environment without it
VscodeGitIpcHandles ==
    {"", "/run/user/1000/vscode-git-1a2b.sock", "/run/user/1000/vscode-git-1a2b"}

\* build_attach_request_fifo_path: <<>> or <<the fifo of attach requests>>
build_attach_request_fifo_path(handle) ==
    CASE handle = "/run/user/1000/vscode-git-1a2b.sock"
           -> <<"/tmp/dbgee-vscode-debuggee-for-vscode-git-1a2b">>
      [] OTHER -> <<>>

\* a send_json_to_vscode that opens and writes the fifo itself
send_json_to_vscode_inline(w, fifo) == [w EXCEPT ![fifo] = "written"]

\* send_json_to_vscode after mkfifo: a thread is spawned for the fifo; it is
\* blocked in File::create until the fifo has a reader
send_json_to_vscode(w, fifo) == [w EXCEPT ![fifo] = "blocked"]

\* a VsCode::open that returns the error of send_attach_request
OpenVsCode_with_request_error(mkfifo_ok, handle, request_exists) ==
    /\ pc = "open_terminal"
    /\ TerminalOf(cmd, adapter) = "vscode"
    /\ LET info == build_attach_information(adapter)
           informed == <<"terminal.open", "build_attach_information",
                         "send_attach_information">>
       IN  IF ~info.ok \/ ~mkfifo_ok
           THEN /\ Finish(<<"terminal.open", "build_attach_information",
                            "send_attach_information:Err">>, Err("mkfifo failed"))
                /\ UNCHANGED writers
           ELSE IF build_attach_request_fifo_path(handle) = <<>> \/ ~request_exists
           THEN /\ Finish(informed \o <<"send_attach_request:Err(no fifo)">>,
                          Err("The named pipe doesn't exist"))
                /\ writers' = send_json_to_vscode(writers, "information")
           ELSE /\ pc' = "wait"
                /\ UNCHANGED exit_code
                /\ events' = events \o informed
                       \o <<"build_attach_information", "send_attach_request",
                            "Debugger::run:Ok">>
                /\ writers' = send_json_to_vscode(
                                  send_json_to_vscode(writers, "information"), "request")
    /\ UNCHANGED <<fsvars, cmd, adapter, sigint, child, debuggee_abspath, pid_file, runs,
                   sigints>>
    /\ UNCHANGED <<hookvars, argv, cachevars>>

\* VsCode::open.  mkfifo_ok: the fifo of the attach information could be made;
\* handle: the value of VSCODE_GIT_IPC_HANDLE; request_exists: the fifo of
\* attach requests is on the disk.  An error of send_attach_request is logged
\* and dropped.
OpenVsCode(mkfifo_ok, handle, request_exists) ==
    /\ pc = "open_terminal"
    /\ TerminalOf(cmd, adapter) = "vscode"
    /\ LET info == build_attach_information(adapter)
           request_path == build_attach_request_fifo_path(handle)
           informed == <<"terminal.open", "build_attach_information",
                         "send_attach_information">>
       IN  IF ~info.ok
           THEN /\ Finish(<<"terminal.open", "build_attach_information",
                            "send_attach_information:Err">>, info)
                /\ UNCHANGED writers
           ELSE IF ~mkfifo_ok
           THEN /\ Finish(<<"terminal.open", "build_attach_information",
                            "send_attach_information:Err">>, Err("mkfifo failed"))
                /\ UNCHANGED writers
           ELSE /\ pc' = "wait"
                /\ UNCHANGED exit_code
                /\ IF request_path = <<>>
                   THEN /\ events' = events \o informed
                               \o <<"send_attach_request:Err(no path)", "Debugger::run:Ok">>
                        /\ writers' = send_json_to_vscode(writers, "information")
                   ELSE IF ~request_exists
                   THEN /\ events' = events \o informed
                               \o <<"send_attach_request:Err(no fifo)", "Debugger::run:Ok">>
                        /\ writers' = send_json_to_vscode(writers, "information")
                   ELSE /\ events' = events \o informed
                               \o <<"build_attach_information", "send_attach_request",
                                    "Debugger::run:Ok">>
                        /\ writers' = send_json_to_vscode(
                                          send_json_to_vscode(writers, "information"),
                                          "request")
    /\ UNCHANGED <<fsvars, cmd, adapter, sigint, child, debuggee_abspath, pid_file, runs,
                   sigints>>
    /\ UNCHANGED <<hookvars, argv, cachevars>>

\* the exit code wait_pid_exit reports for a process a signal killed
exitcode_signaled == 130

\* a wait_pid_exit whose last arm returns 0 instead of waiting again
wait_pid_exit_returning_on_any(status) ==
    CASE status.kind = "Exited" -> [returns |-> TRUE, value |-> status.status]
      [] status.kind = "Signaled" -> [returns |-> TRUE, value |-> exitcode_signaled]
      [] OTHER -> [returns |-> TRUE, value |-> 0]

\* one turn of the loop of wait_pid_exit on a result of waitpid: whether the
\* function returns, and what
wait_pid_exit(status) ==
    CASE status.kind = "Exited" -> [returns |-> TRUE, value |-> status.status]
      [] status.kind = "Signaled" -> [returns |-> TRUE, value |-> exitcode_signaled]
      [] status.kind = "ECHILD" -> [returns |-> TRUE, value |-> 0]
      [] OTHER -> [returns |-> FALSE, value |-> 0]

\* what waitpid can report now: the end of the child, and, once a debugger has
\* taken the debuggee over (on macOS the tracer becomes its parent), no such child
WaitResults(c) ==
    (IF c.state \in {"exited", "killed"} THEN {StatusOf(c)} ELSE {})
      \cup (IF c.kind = "debuggee" /\ c.user_code THEN {WaitECHILD} ELSE {})

\* run: wait_pid_exit(pid) after Debugger::run returned the pid
WaitPidExit(status) ==
    /\ pc = "wait"
    /\ status \in WaitResults(child)
    /\ IF wait_pid_exit(status).returns
       THEN Finish(<<"waitpid:" \o status.kind>>, Ok(wait_pid_exit(status).value))
       ELSE UNCHANGED <<pc, events, exit_code>>
    /\ child' = IF status.kind \in {"Exited", "Signaled"}
                THEN [child EXCEPT !.state = "reaped"]
                ELSE child
    /\ UNCHANGED <<fsvars, cmd, adapter, sigint, debuggee_abspath, pid_file, runs, sigints>>
    /\ UNCHANGED <<hookvars, argv, writers, cachevars>>

\* the debugger that attached lets the stopped debuggee run (a debuggee that was
\* stopped before its exec does the exec now)
DebuggerContinues ==
    /\ pc = "wait"
    /\ child.kind = "debuggee"
    /\ child.state = "stopped"
    /\ child' = [child EXCEPT !.state = "running", !.user_code = TRUE,
                              !.image = debuggee_abspath[1]]
    /\ UNCHANGED <<fsvars, pc, cmd, adapter, sigint, debuggee_abspath, events, exit_code,
                   pid_file, runs, sigints>>
    /\ UNCHANGED <<hookvars, argv, writers, cachevars>>

\* the debuggee, or the debugger server, exits
ChildExits(status) ==
    /\ child.state = "running"
    /\ child' = [child EXCEPT !.state = "exited", !.status = status]
    /\ UNCHANGED <<fsvars, pc, cmd, adapter, sigint, debuggee_abspath, events, exit_code,
                   pid_file, runs, sigints>>
    /\ UNCHANGED <<hookvars, argv, writers, cachevars>>

\* a signal of another process kills the child (modelled once the launch has
\* returned and dbgee waits)
ChildKilled ==
    /\ pc = "wait"
    /\ child.state \in {"stopped", "running"}
    /\ child' = [child EXCEPT !.state = "killed"]
    /\ UNCHANGED <<fsvars, pc, cmd, adapter, sigint, debuggee_abspath, events, exit_code,
                   pid_file, runs, sigints>>
    /\ UNCHANGED <<hookvars, argv, writers, cachevars>>

\* the handler's call, in the history
KillEvent(pid) == "kill(" \o ToString(pid) \o ", SIGKILL)"

\* a handler that sends SIGTERM: a stopped process does not act on it
kill9_child_by_sigint_politely(c) ==
    IF c.state = "running" THEN [c EXCEPT !.state = "killed"] ELSE c

\* the handler kill9_child_by_sigint installs: signal::kill(pid, SIGKILL), whose
\* result is dropped; the signal ends a process that has not ended yet
kill9_child_by_sigint(c) ==
    IF c.state \in {"stopped", "running"} THEN [c EXCEPT !.state = "killed"] ELSE c

\* SIGINT arrives at the dbgee process.  Default disposition: it kills dbgee.
\* SIG_IGN: nothing.  The handler of kill9_child_by_sigint: SIGKILL to the pid
\* it was made for; a waitpid in progress is interrupted, and wait_pid_exit
\* takes its next turn.
Sigint ==
    /\ pc \notin {"idle", "exited", "killed"}
    /\ sigints < MaxSigints
    /\ sigints' = sigints + 1
    /\ CASE sigint = "default" ->
              /\ pc' = "killed"
              /\ UNCHANGED <<child, events, exit_code>>
         [] sigint = "ignore" ->
              UNCHANGED <<pc, child, events, exit_code>>
         [] sigint = "kill9" ->
              /\ child' = kill9_child_by_sigint(child)
              /\ IF pc = "wait" /\ wait_pid_exit(WaitEINTR).returns
                 THEN Finish(<<KillEvent(child.pid), "waitpid:EINTR">>,
                             Ok(wait_pid_exit(WaitEINTR).value))
                 ELSE /\ events' = Append(events, KillEvent(child.pid))
                      /\ UNCHANGED <<pc, exit_code>>
    /\ UNCHANGED <<fsvars, cmd, adapter, sigint, debuggee_abspath, pid_file, runs>>
    /\ UNCHANGED <<hookvars, argv, writers, cachevars>>

\* env::current_exe
SelfPath == "/usr/bin/dbgee"

\* A command line is handled as the sequence of its pieces: the characters the
\* shell treats specially (space, ', ") are pieces of their own, and a run of
\* other characters is one piece.  Chars: the pieces of the strings of the model
Chars(s) ==
    CASE s = "/tmp/my prog" -> <<"/tmp/my", " ", "prog">>
      [] s = "/tmp/it's" -> <<"/tmp/it", "'", "s">>
      [] s = "/tmp/a b" -> <<"/tmp/a", " ", "b">>
      [] s = "" -> <<>>
      [] OTHER -> <<s>>

RECURSIVE Join(_)
Join(cs) == IF cs = <<>> THEN "" ELSE cs[1] \o Join(Tail(cs))

\* escape_single_quote: s.replace("'", "'\"'\"'")
RECURSIVE escape_single_quote(_)
escape_single_quote(cs) ==
    IF cs = <<>> THEN <<>>
    ELSE (IF cs[1] = "'" THEN <<"'", "\"", "'", "\"", "'">> ELSE <<cs[1]>>)
           \o escape_single_quote(Tail(cs))

\* an option of a command line, "" when the record of the command has no such field
Opt(c, key) == IF key \in DOMAIN c THEN c[key] ELSE ""

\* ArgMatches::args of the top-level command and of the subcommand `set`: the
\* arguments that were given, each with its values (the order of a HashMap, here
\* a fixed one)
ArgsOf(c, keys) ==
    LET given(key) == Opt(c, key) \notin {"", "auto"}
        RECURSIVE collect(_)
        collect(ks) == IF ks = <<>> THEN <<>>
                       ELSE (IF given(ks[1]) THEN <<[key |-> ks[1], value |-> c[ks[1]]]>>
                             ELSE <<>>) \o collect(Tail(ks))
    IN  collect(keys)

GlobalArgs(c) == ArgsOf(c, <<"log_level", "vscode_fifo_prefix">>)
SetArgs(c) == ArgsOf(c, <<"debuggee", "debugger", "terminal">>)

SETOPTS_POSITIONAL_ARGS == {"debuggee", "start-cmd"}

\* key.replace("_", "-")
Kebab(key) ==
    CASE key = "log_level" -> "log-level"
      [] key = "vscode_fifo_prefix" -> "vscode-fifo-prefix"
      [] OTHER -> key

\* reconstruct_flags: --key 'value' for every argument that is not positional,
\* joined by spaces
RECURSIVE reconstruct_flags(_, _)
reconstruct_flags(args, positional_args) ==
    IF args = <<>> THEN <<>>
    ELSE IF args[1].key \in positional_args
    THEN reconstruct_flags(Tail(args), positional_args)
    ELSE LET rest == reconstruct_flags(Tail(args), positional_args)
         IN  <<"--" \o Kebab(args[1].key), " ", "'">>
               \o escape_single_quote(Chars(args[1].value)) \o <<"'">>
               \o (IF rest = <<>> THEN <<>> ELSE <<" ">> \o rest)

\* build_run_command: the format! of the command line, in pieces
run_command_chars(c, debuggee_path) ==
    Chars(SelfPath) \o <<" ">> \o reconstruct_flags(GlobalArgs(c), {})
      \o <<" ", "run", " ">> \o reconstruct_flags(SetArgs(c), SETOPTS_POSITIONAL_ARGS)
      \o <<" ", "--", " ">> \o Chars(debuggee_path) \o <<"-original">>
      \o <<" ", "\"", "$@", "\"">>

build_run_command(f, c) ==
    LET debuggee_path == get_valid_executable_path(f, c.debuggee)
    IN  IF ~debuggee_path.ok THEN Err("the debuggee is not executable")
        ELSE Ok(Join(run_command_chars(c, debuggee_path.path)))

\* Debugger::set: set_to_exec_dgeee up to the start command; PythonDebugger bails
Set ==
    /\ pc = "set"
    /\ IF adapter.kind = "debugpy"
       THEN /\ Finish(<<>>, Err("set is not implemented yet for Python"))
            /\ UNCHANGED fs
       ELSE LET run_command == build_run_command(fs, cmd)
                wrapped == wrap_debuggee_binary(fs, cmd.debuggee, run_command.value)
            IN  IF ~run_command.ok
                THEN /\ Finish(<<>>, run_command)
                     /\ UNCHANGED fs
                ELSE /\ fs' = wrapped.fs
                     /\ IF ~wrapped.ok
                        THEN Finish(<<"wrap_debuggee_binary">>, Err("wrap failed"))
                        ELSE IF cmd.start_cmd = <<>>
                        THEN Finish(<<"wrap_debuggee_binary">>, Ok(0))
                        ELSE /\ pc' = "start_cmd"
                             /\ events' = Append(events, "wrap_debuggee_binary")
                             /\ UNCHANGED exit_code
    /\ UNCHANGED <<root, fs0, calls, cmd, adapter, sigint, child, debuggee_abspath,
                   pid_file, runs, sigints>>
    /\ UNCHANGED <<hookvars, argv, writers, cachevars>>

\* set_to_exec_dgeee: the start command is spawned.  spawn_ok: whether the
\* spawn succeeded
StartCmd(spawn_ok) ==
    /\ pc = "start_cmd"
    /\ IF spawn_ok
       THEN /\ pc' = "wait_start_cmd"
            /\ events' = Append(events, "spawn")
            /\ UNCHANGED exit_code
       ELSE Finish(<<>>, Err("spawn failed"))
    /\ UNCHANGED <<fsvars, cmd, adapter, sigint, child, debuggee_abspath, pid_file, runs,
                   sigints>>
    /\ UNCHANGED <<hookvars, argv, writers, cachevars>>

\* set_to_exec_dgeee: the start command is waited for, its exit status is
\* dropped, and the wrapper is removed.  wait_ok: whether the wait succeeded;
\* status: the exit status of the start command
WaitStartCmd(wait_ok, status) ==
    /\ pc = "wait_start_cmd"
    /\ IF ~wait_ok
       THEN /\ Finish(<<>>, Err("wait failed"))
            /\ UNCHANGED fs
       ELSE LET unwrapped == unwrap_debuggee_binary(fs, cmd.debuggee)
            IN  /\ fs' = unwrapped.fs
                /\ Finish(<<"wait:" \o ToString(status), "unwrap_debuggee_binary">>,
                          IF unwrapped.ok THEN Ok(0) ELSE Err("unwrap failed"))
    /\ UNCHANGED <<root, fs0, calls, cmd, adapter, sigint, child, debuggee_abspath,
                   pid_file, runs, sigints>>
    /\ UNCHANGED <<hookvars, argv, writers, cachevars>>

\* Debugger::unset: unset_from_exec_dbgee; PythonDebugger bails
Unset ==
    /\ pc = "unset"
    /\ IF adapter.kind = "debugpy"
       THEN /\ Finish(<<>>, Err("unset is not implemented yet for Python"))
            /\ UNCHANGED fs
       ELSE LET unwrapped == unwrap_debuggee_binary(fs, cmd.debuggee)
            IN  /\ fs' = unwrapped.fs
                /\ Finish(<<"unwrap_debuggee_binary">>,
                          IF unwrapped.ok THEN Ok(0) ELSE Err("unwrap failed"))
    /\ UNCHANGED <<root, fs0, calls, cmd, adapter, sigint, child, debuggee_abspath,
                   pid_file, runs, sigints>>
    /\ UNCHANGED <<hookvars, argv, writers, cachevars>>

Next ==
    \/ \E c \in Commands : Invoke(c)
    \/ \E in_path \in BOOLEAN : BuildDebugger(in_path)
    \/ \E os \in {"linux", "macos"}, installed \in InstalledSets : DetectDebugger(os, installed)
    \/ CheckExecutable
    \/ RunResolve
    \/ RunPython
    \/ IgnoreSigint
    \/ \E fork_ok \in BOOLEAN, pid \in Pids : Fork(fork_ok, pid)
    \/ \E outcome \in {"exec", "failed", "signal"} : ChildExec(outcome)
    \/ WaitForTrap
    \/ SendStop
    \/ Detach
    \/ \E handler_ok \in BOOLEAN : InstallKill9(handler_ok)
    \/ RecordDebuggee
    \/ \E create_ok \in BOOLEAN : WritePidFile(create_ok)
    \/ \E spawn_ok \in BOOLEAN, pid \in Pids : Spawn(spawn_ok, pid)
    \/ ServerIgnoreSigint
    \/ SleepElapsed
    \/ \E sudo_user \in SudoUsers, tmux_ok, active, open_ok \in BOOLEAN :
          OpenTmux(sudo_user, tmux_ok, active, open_ok)
    \/ \E mkfifo_ok, request_exists \in BOOLEAN, handle \in VscodeGitIpcHandles :
          OpenVsCode(mkfifo_ok, handle, request_exists)
    \/ \E status \in WaitResults(child) : WaitPidExit(status)
    \/ DebuggerContinues
    \/ \E status \in ExitStatuses : ChildExits(status)
    \/ ChildKilled
    \/ Sigint
    \/ Set
    \/ \E spawn_ok \in BOOLEAN : StartCmd(spawn_ok)
    \/ \E wait_ok \in BOOLEAN, status \in ExitStatuses : WaitStartCmd(wait_ok, status)
    \/ Unset

Spec == Init /\ [][Next]_vars

----------------------------------------------------------------------------
(* SpecRunCommand: `dbgee set` writes a shim, and the shim is run: /bin/sh    *)
(* splits its command line into words and dbgee parses them.                  *)

\* the words /bin/sh makes of a command line.  mode: "" outside quotes, "'" or
\* "\"" inside; "$@" inside double quotes stands for the arguments of the shim.
\* A quote that is never closed is a syntax error: no command is run
RECURSIVE sh_split(_, _, _, _, _)
sh_split(cs, mode, word, in_word, words) ==
    IF cs = <<>>
    THEN IF mode # "" THEN <<>>
         ELSE IF in_word THEN Append(words, word) ELSE words
    ELSE LET c == cs[1]
             rest == Tail(cs)
         IN  IF mode = ""
             THEN IF c = " "
                  THEN sh_split(rest, "", "", FALSE,
                                IF in_word THEN Append(words, word) ELSE words)
                  ELSE IF c \in {"'", "\""}
                  THEN sh_split(rest, c, word, TRUE, words)
                  ELSE sh_split(rest, "", word \o c, TRUE, words)
             ELSE IF c = mode
                  THEN sh_split(rest, "", word, TRUE, words)
                  ELSE sh_split(rest, mode, word \o c, TRUE, words)

sh_words(cs) == sh_split(cs, "", "", FALSE, <<>>)

\* the values the options take
LogLevels == {"off", "error", "warn", "info", "debug", "trace"}

NoMatches ==
    [ok |-> TRUE, sub |-> "", log_level |-> "", vscode_fifo_prefix |-> "",
     debugger |-> "", terminal |-> "", debuggee |-> "", args |-> <<>>]

\* Opts::clap().get_matches_from: the global options, the subcommand, its
\* options, and its positional arguments; after "--" every word is positional
RECURSIVE get_matches(_, _, _)
get_matches(ws, phase, m) ==
    IF ~m.ok THEN m
    ELSE IF ws = <<>> THEN [m EXCEPT !.ok = m.sub # "" /\ m.debuggee # ""]
    ELSE LET w == ws[1]
             positional == IF m.debuggee = "" THEN [m EXCEPT !.debuggee = w]
                           ELSE [m EXCEPT !.args = Append(@, w)]
             option(key, values) ==
                 IF Len(ws) < 2 \/ ~(values = {} \/ ws[2] \in values)
                 THEN [m EXCEPT !.ok = FALSE]
                 ELSE get_matches(Tail(Tail(ws)), phase, [m EXCEPT ![key] = ws[2]])
         IN  CASE phase = "positional" -> get_matches(Tail(ws), phase, positional)
               [] phase = "global" /\ w = "--log-level" -> option("log_level", LogLevels)
               [] phase = "global" /\ w = "--vscode-fifo-prefix" ->
                    option("vscode_fifo_prefix", {})
               [] phase = "global" /\ w \in {"run", "set", "unset"} ->
                    get_matches(Tail(ws), "sub", [m EXCEPT !.sub = w])
               [] phase = "sub" /\ w = "--debugger" -> option("debugger", Debuggers)
               [] phase = "sub" /\ w = "--terminal" -> option("terminal", Terminals)
               [] phase = "sub" /\ w = "--" -> get_matches(Tail(ws), "positional", m)
               [] phase = "sub" /\ w \notin {"--debugger", "--terminal", "--"} ->
                    get_matches(Tail(ws), phase, positional)
               [] OTHER -> [m EXCEPT !.ok = FALSE]

\* argv[0] is the program; no words at all: nothing was run
get_matches_from(words) ==
    IF words = <<>> THEN [NoMatches EXCEPT !.ok = FALSE]
    ELSE get_matches(Tail(words), "global", NoMatches)

\* the debuggees of the set invocations: a plain name, and names with a space
\* and with a quote in them
RunCommandDebuggees == {"hello", "/tmp/my prog", "/tmp/it's"}

RunCommandPaths ==
    {AbsoluteOf(n) : n \in RunCommandDebuggees}
      \cup {get_debuggee_backup_name(AbsoluteOf(n)) : n \in RunCommandDebuggees}

SetInvocations ==
    {[sub |-> "set", debugger |-> d, terminal |-> t, debuggee |-> n, start_cmd |-> <<>>,
      log_level |-> l, vscode_fifo_prefix |-> v] :
        d \in {"auto", "gdb", "stop-and-write-pid"}, t \in {"", "tmuxw"},
        n \in RunCommandDebuggees, l \in {"", "debug"},
        v \in {"", "/tmp/p", "/tmp/a b", "/tmp/it's"}}

InitRunCommand ==
    /\ root = FALSE
    /\ cmd \in SetInvocations
    /\ fs = [p \in RunCommandPaths |->
               IF p = AbsoluteOf(cmd.debuggee) THEN RegularFile({"r", "w", "x"}, ProgElf)
               ELSE NoFile]
    /\ fs0 = fs
    /\ calls = <<>>
    /\ pc = "build_debugger"
    /\ adapter = NoDebugger
    /\ sigint = "default"
    /\ child = NoChild
    /\ debuggee_abspath = <<>>
    /\ events = <<>>
    /\ exit_code = <<>>
    /\ pid_file = <<>>
    /\ runs = 1
    /\ sigints = 0
    /\ tracees = [p \in HookPids |-> NoTracee]
    /\ hook = NoHook
    /\ argv = <<>>
    /\ writers = NoWriters
    /\ cmd_cache = <<>>
    /\ lookup = NoLookup
    /\ units = <<>>
    /\ scan = <<>>
    /\ installers = NoInstallers

\* a process executes the shim: /bin/sh runs the command line in its third line
RunShim ==
    /\ pc = "exited" /\ cmd.sub = "set" /\ exit_code = <<0>>
    /\ argv = <<>>
    /\ LET path == AbsoluteOf(cmd.debuggee)
       IN  /\ IsShim(fs[path])
           /\ fs[path].lines[3] = Join(run_command_chars(cmd, path))
           /\ argv' = <<sh_words(run_command_chars(cmd, path))>>
    /\ UNCHANGED <<fsvars, procvars, pid_file, runs, sigints, hookvars, writers, cachevars>>

NextRunCommand ==
    \/ \E in_path \in BOOLEAN : BuildDebugger(in_path)
    \/ \E os \in {"linux", "macos"}, installed \in InstalledSets : DetectDebugger(os, installed)
    \/ CheckExecutable
    \/ Set
    \/ RunShim

SpecRunCommand == InitRunCommand /\ [][NextRunCommand]_vars

----------------------------------------------------------------------------
(* SpecVsCode: a run that opens the VsCode terminal, with the workers that *)
(* write the fifos and the readers of the fifos.                            *)

VsCodeRuns ==
    {[sub |-> "run", debugger |-> d, terminal |-> t, debuggee |-> "hello",
      start_cmd |-> <<>>] :
        d \in {"gdb", "dlv", "debugpy"}, t \in {"vscode"}}
      \cup {[sub |-> "run", debugger |-> "debugpy", terminal |-> "tmuxw",
              debuggee |-> "hello", start_cmd |-> <<>>]}

InitVsCode ==
    /\ root = FALSE
    /\ fs = [p \in Paths |-> IF p = TargetPath
                             THEN RegularFile({"r", "w", "x"}, ProgElf) ELSE NoFile]
    /\ fs0 = fs
    /\ calls = <<>>
    /\ pc = "build_debugger"
    /\ cmd \in VsCodeRuns
    /\ adapter = NoDebugger
    /\ sigint = "default"
    /\ child = NoChild
    /\ debuggee_abspath = <<>>
    /\ events = <<>>
    /\ exit_code = <<>>
    /\ pid_file = <<>>
    /\ runs = 1
    /\ sigints = 0
    /\ tracees = [p \in HookPids |-> NoTracee]
    /\ hook = NoHook
    /\ argv = <<>>
    /\ writers = NoWriters
    /\ cmd_cache = <<>>
    /\ lookup = NoLookup
    /\ units = <<>>
    /\ scan = <<>>
    /\ installers = NoInstallers

\* the worker of send_json_to_vscode: File::create returns when a reader has
\* opened the fifo, write_all writes the json, and the file is closed.  The
\* worker lives in the dbgee process
ReaderOpens(fifo) ==
    /\ pc \notin {"idle", "exited", "killed"}
    /\ writers[fifo] = "blocked"
    /\ writers' = [writers EXCEPT ![fifo] = "written"]
    /\ events' = Append(events, "write_all:" \o fifo)
    /\ UNCHANGED <<fsvars, pc, cmd, adapter, sigint, child, debuggee_abspath, exit_code,
                   pid_file, runs, sigints, hookvars, argv, cachevars>>

NextVsCode ==
    \/ \E in_path \in BOOLEAN : BuildDebugger(in_path)
    \/ CheckExecutable
    \/ RunResolve
    \/ RunPython
    \/ IgnoreSigint
    \/ \E fork_ok \in BOOLEAN, pid \in Pids : Fork(fork_ok, pid)
    \/ \E outcome \in {"exec", "failed", "signal"} : ChildExec(outcome)
    \/ WaitForTrap
    \/ SendStop
    \/ Detach
    \/ \E handler_ok \in BOOLEAN : InstallKill9(handler_ok)
    \/ RecordDebuggee
    \/ \E spawn_ok \in BOOLEAN, pid \in Pids : Spawn(spawn_ok, pid)
    \/ ServerIgnoreSigint
    \/ SleepElapsed
    \/ \E mkfifo_ok, request_exists \in BOOLEAN, handle \in VscodeGitIpcHandles :
          OpenVsCode(mkfifo_ok, handle, request_exists)
    \/ \E fifo \in {"information", "request"} : ReaderOpens(fifo)
    \/ \E status \in WaitResults(child) : WaitPidExit(status)
    \/ DebuggerContinues
    \/ \E status \in ExitStatuses : ChildExits(status)
    \/ ChildKilled

SpecVsCode == InitVsCode /\ [][NextVsCode]_vars

----------------------------------------------------------------------------
(* SpecCache: the calls of get_cached_command_output in one dbgee process, *)
(* while debuggees are installed and uninstalled.                           *)

\* how many calls of get_cached_command_output one behaviour makes
MaxLookups == 4

\* the commands the adapters ask the output of
CachedCommands ==
    {<<"file", "/tmp/hello">>, <<"file", "/tmp/hello-original">>,
     <<"go", "version", "/tmp/hello">>}

\* cmd.join(",")
RECURSIVE join_comma(_)
join_comma(c) ==
    IF Len(c) = 1 THEN c[1] ELSE c[1] \o "," \o join_comma(Tail(c))

\* what the command writes to its standard output: the words of it that the
\* adapters look for
command_stdout(f, c) ==
    IF c[1] = "file" THEN file_output(f, c[2])
    ELSE IF FileAt(f, c[3]).exists /\ FileAt(f, c[3]).lines = ProgGo THEN {"go1.16"}
    ELSE {}

\* a get_cached_command_output that runs the command on every call
get_cached_command_output_afresh(cache, f, c, spawn_ok, utf8_ok) ==
    LET cache_key == join_comma(c)
        cmd_output == command_stdout(f, c)
    IN  IF ~spawn_ok
        THEN [cache |-> cache, result |-> Err("No such file or directory"), ran |-> FALSE]
        ELSE IF ~utf8_ok
        THEN [cache |-> cache, result |-> Err("invalid utf-8 sequence"), ran |-> TRUE]
        ELSE [cache |-> [k \in DOMAIN cache \cup {cache_key} |->
                           IF k = cache_key THEN cmd_output ELSE cache[k]],
              result |-> Ok(cmd_output), ran |-> TRUE]

\* get_cached_command_output.  spawn_ok: the command could be started;
\* utf8_ok: its output is UTF-8.  ran: whether the command was started
get_cached_command_output(cache, f, c, spawn_ok, utf8_ok) ==
    LET cache_key == join_comma(c)
        cmd_output == command_stdout(f, c)
    IN  IF cache_key \in DOMAIN cache
        THEN [cache |-> cache, result |-> Ok(cache[cache_key]), ran |-> FALSE]
        ELSE IF ~spawn_ok
        THEN [cache |-> cache, result |-> Err("No such file or directory"), ran |-> FALSE]
        ELSE IF ~utf8_ok
        THEN [cache |-> cache, result |-> Err("invalid utf-8 sequence"), ran |-> TRUE]
        ELSE [cache |-> cache @@ (cache_key :> cmd_output),
              result |-> Ok(cmd_output), ran |-> TRUE]

InitCache ==
    /\ root = FALSE
    /\ fs \in {[p \in Paths |-> IF p = TargetPath THEN RegularFile({"r", "w", "x"}, lines)
                                ELSE NoFile] : lines \in {ProgElf, ProgGo}}
    /\ fs0 = fs
    /\ calls = <<>>
    /\ NoProcess
    /\ units = <<>>

\* a call of get_cached_command_output
Lookup(c, spawn_ok, utf8_ok) ==
    /\ runs < MaxLookups
    /\ LET r == get_cached_command_output(cmd_cache, fs, c, spawn_ok, utf8_ok)
       IN  /\ cmd_cache' = r.cache
           /\ lookup' = [key |-> join_comma(c), result |-> r.result, ran |-> r.ran]
           /\ events' = IF r.ran THEN Append(events, "Command::output:" \o join_comma(c))
                        ELSE events
    /\ runs' = runs + 1
    /\ UNCHANGED <<fsvars, pc, cmd, adapter, sigint, child, debuggee_abspath, exit_code,
                   pid_file, sigints, hookvars, argv, writers, dwarfvars, installers>>

NextCache ==
    \/ \E c \in CachedCommands, spawn_ok, utf8_ok \in BOOLEAN : Lookup(c, spawn_ok, utf8_ok)
    \/ \E run_command \in RunCommands : Install(TargetPath, run_command)
    \/ Uninstall(TargetPath)

SpecCache == InitCache /\ [][NextCache]_vars

-----------------------------------------------------------------------------
(* SpecDwarf: the scan of the compilation units of an executable for a     *)
(* source file (os/linux.rs, any_in_dwarf_decl_file).                      *)

MaxUnits == 2
MaxFileNames == 2

\* what dwarf.unit(header) gives for a unit
UnitLoads == {"ok", "error"}

\* what becomes of the comp_dir of a unit: "found" when it has DW_AT_comp_dir
\* and the directory exists, "absent" without the attribute, "not_found" when
\* canonicalize does not find the directory, "error" when the entries or the
\* string cannot be read or canonicalize fails in another way
CompDirs == {"found", "absent", "not_found", "error"}

\* a file entry of the line program: its resolved path satisfies the
\* predicate, or does not, or the entry cannot be resolved
FileEntries == {"match", "other", "unresolved"}

FileNames == UNION {[1..n -> FileEntries] : n \in 0..MaxFileNames}

DwarfUnits ==
    [load : UnitLoads, comp_dir : CompDirs, line_program : BOOLEAN, file_names : FileNames]

\* DwarfPathResolver::build: Ok(Some(_)), Ok(None) or an error
DwarfPathResolver_build(unit) ==
    CASE unit.comp_dir = "found" -> Ok(<<"resolver">>)
      [] unit.comp_dir \in {"absent", "not_found"} -> Ok(<<>>)
      [] unit.comp_dir = "error" -> Err("Failed to build DwarfPathResolver")

\* the closure given to file_names().iter().any: an entry that cannot be
\* resolved is logged and counts as no match
file_entry_matches(file_entry) == file_entry = "match"

\* any_in_dwarf_decl_file: the loop over dwarf.units(), for an executable that
\* could be mapped and parsed
RECURSIVE any_in_dwarf_decl_file(_)
any_in_dwarf_decl_file(us) ==
    IF us = <<>> THEN Ok(FALSE)
    ELSE LET unit == Head(us)
             path_resolver == DwarfPathResolver_build(unit)
         IN  IF unit.load # "ok" THEN Err("dwarf.unit")
             ELSE IF ~path_resolver.ok THEN path_resolver
             ELSE IF path_resolver.value = <<>> THEN any_in_dwarf_decl_file(Tail(us))
             ELSE IF ~unit.line_program THEN any_in_dwarf_decl_file(Tail(us))
             ELSE IF \E i \in DOMAIN unit.file_names :
                        file_entry_matches(unit.file_names[i])
             THEN Ok(TRUE)
             ELSE any_in_dwarf_decl_file(Tail(us))

InitDwarf ==
    /\ root = FALSE
    /\ fs = [p \in Paths |-> NoFile]
    /\ fs0 = fs
    /\ calls = <<>>
    /\ NoProcess
    /\ \E n \in 0..MaxUnits : units \in [1..n -> DwarfUnits]

\* HookSourceCondition::hooks and HookSourceDirCondition::hooks: the scan of
\* the executable of a trapped process
HooksSource ==
    /\ scan = <<>>
    /\ scan' = <<any_in_dwarf_decl_file(units)>>
    /\ UNCHANGED <<fsvars, procvars, pid_file, runs, sigints, hookvars, argv, writers,
                   cmd_cache, lookup, units, installers>>

NextDwarf == HooksSource

SpecDwarf == InitDwarf /\ [][NextDwarf]_vars

-----------------------------------------------------------------------------
(* SpecRace: two dbgee processes install on the same Target at the same     *)
(* time; the file system calls of wrap_debuggee_binary interleave.          *)

\* wrap_debuggee_binary: check_if_wrapped
RaceCheckIfWrapped(p) ==
    /\ installers[p].pc = "idle"
    /\ installers' = [installers EXCEPT ![p].pc =
                          IF check_if_wrapped(fs, TargetPath) THEN "returned"
                          ELSE "get_valid_executable_path",
                                       ![p].result =
                          IF check_if_wrapped(fs, TargetPath) THEN "Err" ELSE ""]
    /\ UNCHANGED <<fsvars, procvars, pid_file, runs, sigints, hookvars, argv, writers,
                   cmd_cache, lookup, dwarfvars>>

\* wrap_debuggee_binary: get_valid_executable_path
RaceGetValidExecutablePath(p) ==
    /\ installers[p].pc = "get_valid_executable_path"
    /\ installers' = [installers EXCEPT ![p].pc =
                          IF get_valid_executable_path(fs, TargetPath).ok THEN "metadata"
                          ELSE "returned",
                                       ![p].result =
                          IF get_valid_executable_path(fs, TargetPath).ok THEN "" ELSE "Err"]
    /\ UNCHANGED <<fsvars, procvars, pid_file, runs, sigints, hookvars, argv, writers,
                   cmd_cache, lookup, dwarfvars>>

\* wrap_debuggee_binary: fs::metadata(&debuggee_path)?.permissions()
RaceMetadata(p) ==
    /\ installers[p].pc = "metadata"
    /\ installers' = [installers EXCEPT ![p] =
                          IF fs[TargetPath].exists
                          THEN [pc |-> "rename", debuggee_perm |-> fs[TargetPath].mode,
                                result |-> ""]
                          ELSE [pc |-> "returned", debuggee_perm |-> {}, result |-> "Err"]]
    /\ UNCHANGED <<fsvars, procvars, pid_file, runs, sigints, hookvars, argv, writers,
                   cmd_cache, lookup, dwarfvars>>

\* the installer after a file system call of wrap_debuggee_binary and the
\* `?` that follows it
AfterFsCall(p, r, next) ==
    [installers EXCEPT ![p].pc = IF r.ok THEN next ELSE "returned",
                       ![p].result = IF ~r.ok THEN "Err"
                                     ELSE IF next = "returned" THEN "Ok"
                                     ELSE ""]

\* wrap_debuggee_binary: fs::rename(&debuggee_path, &debuggee_backup)?
RaceRename(p) ==
    /\ installers[p].pc = "rename"
    /\ LET renamed == FsRename(fs, TargetPath, BackupPath)
       IN  /\ fs' = renamed.fs
           /\ installers' = AfterFsCall(p, renamed, "write")
    /\ UNCHANGED <<root, fs0, calls, procvars, pid_file, runs, sigints, hookvars, argv,
                   writers, cmd_cache, lookup, dwarfvars>>

\* wrap_debuggee_binary: fs::write(&debuggee_path, wrapper_sh)?
RaceWrite(p, run_command) ==
    /\ installers[p].pc = "write"
    /\ LET written == FsWrite(fs, TargetPath, wrapper_sh(run_command, TargetPath))
       IN  /\ fs' = written.fs
           /\ installers' = AfterFsCall(p, written, "set_permissions")
    /\ UNCHANGED <<root, fs0, calls, procvars, pid_file, runs, sigints, hookvars, argv,
                   writers, cmd_cache, lookup, dwarfvars>>

\* wrap_debuggee_binary: fs::set_permissions(&debuggee_path, debuggee_perm)?
RaceSetPermissions(p) ==
    /\ installers[p].pc = "set_permissions"
    /\ LET permitted == FsSetPermissions(fs, TargetPath, installers[p].debuggee_perm)
       IN  /\ fs' = permitted.fs
           /\ installers' = AfterFsCall(p, permitted, "returned")
    /\ UNCHANGED <<root, fs0, calls, procvars, pid_file, runs, sigints, hookvars, argv,
                   writers, cmd_cache, lookup, dwarfvars>>

\* an unwrapped Target: an executable program and nothing at Target-original
InitRace ==
    /\ root \in BOOLEAN
    /\ fs \in {[p \in Paths |-> IF p = TargetPath THEN RegularFile(m, lines) ELSE NoFile] :
                 m \in {{"r", "w", "x"}, {"r", "x"}, {"x"}},
                 lines \in {ProgElf, ProgScript}}
    /\ fs0 = fs
    /\ calls = <<>>
    /\ NoProcess
    /\ units = <<>>

NextRace ==
    \/ \E p \in InstallerIds : RaceCheckIfWrapped(p)
    \/ \E p \in InstallerIds : RaceGetValidExecutablePath(p)
    \/ \E p \in InstallerIds : RaceMetadata(p)
    \/ \E p \in InstallerIds : RaceRename(p)
    \/ \E p \in InstallerIds, run_command \in RunCommands : RaceWrite(p, run_command)
    \/ \E p \in InstallerIds : RaceSetPermissions(p)

SpecRace == InitRace /\ [][NextRace]_vars

----------------------------------------------------------------------------
(* SpecHook: dbgee in hook mode (os/linux.rs): one dbgee process, the tree *)
(* of the traced command, and the kernel's ptrace events.                  *)

\* the executables the processes of the traced tree exec
Exes == {"/usr/bin/make", "/tmp/hello"}

HookCommands ==
    {[sub |-> "hook", debugger |-> d, terminal |-> "tmuxw", debuggee |-> "/tmp/hello",
      start_cmd |-> <<"make">>] : d \in Debuggers \cup {"auto"}}

InitHook ==
    /\ root = FALSE
    /\ fs \in {[p \in Paths |-> IF p = TargetPath THEN t ELSE NoFile] :
                 t \in {NoFile, RegularFile({"r", "w", "x"}, ProgElf),
                        RegularFile({"r", "w", "x"}, ProgGo),
                        RegularFile({"r", "w", "x"}, ProgScript)}}
    /\ fs0 = fs
    /\ calls = <<>>
    /\ pc = "build_hook_conditions"
    /\ cmd \in HookCommands
    /\ adapter = NoDebugger
    /\ sigint = "default"
    /\ child = NoChild
    /\ debuggee_abspath = <<>>
    /\ events = <<>>
    /\ exit_code = <<>>
    /\ pid_file = <<>>
    /\ runs = 1
    /\ sigints = 0
    /\ tracees = [p \in HookPids |-> NoTracee]
    /\ hook = NoHook
    /\ argv = <<>>
    /\ writers = NoWriters
    /\ cmd_cache = <<>>
    /\ lookup = NoLookup
    /\ units = <<>>
    /\ scan = <<>>
    /\ installers = NoInstallers

hookfixed == <<fsvars, cmd, sigint, child, debuggee_abspath, pid_file, runs, sigints, argv,
               writers, cachevars>>

\* run_hook: build_hook_conditions for --hook-executable
build_hook_conditions ==
    /\ pc = "build_hook_conditions"
    /\ IF get_abspath(fs, cmd.debuggee).ok
       THEN /\ pc' = "spawn_traced_command"
            /\ UNCHANGED <<events, exit_code>>
       ELSE Finish(<<>>, Err("failed to build hook conditions"))
    /\ UNCHANGED <<hookfixed, adapter, hookvars>>

\* run_hook: spawn_traced_command; the child asks to be traced before its execve
spawn_traced_command(spawn_ok, pid) ==
    /\ pc = "spawn_traced_command"
    /\ IF spawn_ok
       THEN /\ tracees' = [tracees EXCEPT ![pid] = [NoTracee EXCEPT !.state = "running",
                                                                 !.traced = TRUE]]
            /\ hook' = [hook EXCEPT !.start_command_pid = <<pid>>]
            /\ pc' = "wait_sigtrap"
            /\ events' = Append(events, "spawn_traced_command")
            /\ UNCHANGED exit_code
       ELSE /\ Finish(<<>>, Err("Failed to spawn the traced command"))
            /\ UNCHANGED <<hookvars, argv, writers, cachevars>>
    /\ UNCHANGED <<hookfixed, adapter>>

\* a traced process completes an execve: the kernel stops it with SIGTRAP
TraceeExecs(pid, exe) ==
    /\ tracees[pid].state = "running" /\ tracees[pid].traced
    /\ tracees[pid].execs < MaxExecs
    /\ tracees' = [tracees EXCEPT ![pid].state = "trapped", ![pid].exe = exe,
                                  ![pid].execs = @ + 1]
    /\ UNCHANGED <<hookfixed, pc, adapter, events, exit_code, hook>>

\* a traced process forks, vforks or clones: with PTRACE_O_TRACEFORK (VFORK,
\* CLONE) the kernel stops it in a fork event; the new process is traced from
\* its birth and has a SIGSTOP pending
TraceeForks(pid, new) ==
    /\ tracees[pid].state = "running" /\ tracees[pid].traced /\ hook.tracefork
    /\ tracees[pid].exe # ""
    /\ tracees[new].state = "none"
    /\ tracees' = [tracees EXCEPT ![pid].state = "forked", ![pid].forked = <<new>>,
                                  ![new] = [NoTracee EXCEPT !.state = "born",
                                                            !.traced = TRUE]]
    /\ UNCHANGED <<hookfixed, pc, adapter, events, exit_code, hook>>

\* the new child runs for the first time: it stops before the delivery of
\* its SIGSTOP
TraceeBorn(pid) ==
    /\ tracees[pid].state = "born"
    /\ tracees' = [tracees EXCEPT ![pid].state = "forkstopped"]
    /\ UNCHANGED <<hookfixed, pc, adapter, events, exit_code, hook>>

\* a traced process is sent SIGUSR1: it stops before the delivery
TraceeSignalled(pid) ==
    /\ tracees[pid].state = "running" /\ tracees[pid].traced /\ tracees[pid].exe # ""
    /\ tracees[pid].delivered = <<>>
    /\ tracees' = [tracees EXCEPT ![pid].state = "sigstop"]
    /\ UNCHANGED <<hookfixed, pc, adapter, events, exit_code, hook>>

\* wait reports a process that is dbgee's child or its tracee
IsWaitedFor(pid) == tracees[pid].traced \/ hook.start_command_pid = <<pid>>

\* a running process of the tree exits
TraceeExits(pid) ==
    /\ tracees[pid].state = "running" /\ tracees[pid].exe # ""
    /\ tracees' = [tracees EXCEPT ![pid].state =
                       IF IsWaitedFor(pid) THEN "exited" ELSE "reaped"]
    /\ UNCHANGED <<hookfixed, pc, adapter, events, exit_code, hook>>

\* a running process of the tree is terminated by a signal
TraceeKilled(pid) ==
    /\ tracees[pid].state = "running" /\ tracees[pid].exe # ""
    /\ tracees' = [tracees EXCEPT ![pid].state =
                       IF IsWaitedFor(pid) THEN "signaled" ELSE "reaped"]
    /\ UNCHANGED <<hookfixed, pc, adapter, events, exit_code, hook>>

\* a wait that fails with ECHILD while ended processes are still to be reported
HasChildren_still_running ==
    \E pid \in HookPids :
      /\ IsWaitedFor(pid)
      /\ tracees[pid].state \notin {"none", "reaped", "exited", "signaled"}

\* wait fails with ECHILD when dbgee has neither a child nor a tracee
HasChildren ==
    \E pid \in HookPids : IsWaitedFor(pid) /\ tracees[pid].state \notin {"none", "reaped"}

\* the states in which a tracee takes a ptrace request
PtraceStops == {"trapped", "forked", "forkstopped", "sigstop", "groupstop"}

\* the signal whose delivery the stop of the process holds back, as wait
\* reports it
StopSignal(state) ==
    CASE state = "trapped" -> "SIGTRAP"
      [] state \in {"forkstopped", "groupstop"} -> "SIGSTOP"
      [] state = "sigstop" -> "SIGUSR1"

\* a ptrace_cont whose SIGSTOP stops the tracee for good
ptrace_cont_stopping(t, pid, sig) ==
    IF t[pid].state \notin PtraceStops THEN t
    ELSE IF sig = <<"SIGSTOP">> THEN [t EXCEPT ![pid].state = "stopped"]
    ELSE [t EXCEPT ![pid].state = "running", ![pid].forked = <<>>]

\* a ptrace_cont that drops the signal
ptrace_cont_without_signal(t, pid, sig) ==
    IF t[pid].state \in PtraceStops
    THEN [t EXCEPT ![pid].state = "running", ![pid].forked = <<>>]
    ELSE t

\* ptrace::cont(pid, sig); sig is <<>> for None.  It fails (and the failure
\* is only logged) for a process that is not stopped.  A signal is delivered
\* to a process that was stopped before a delivery: a delivered SIGSTOP
\* stops the tracee again, and the restart from that stop delivers nothing
ptrace_cont(t, pid, sig) ==
    IF t[pid].state \notin PtraceStops THEN t
    ELSE IF sig = <<>> \/ t[pid].state \in {"groupstop", "forked"}
    THEN [t EXCEPT ![pid].state = "running", ![pid].forked = <<>>]
    ELSE [t EXCEPT ![pid].state = IF sig = <<"SIGSTOP">> THEN "groupstop" ELSE "running",
                   ![pid].delivered = Append(@, sig[1])]

\* a ptrace_detach that never delivers a signal
ptrace_detach_without_signal(t, pid, sig) ==
    IF t[pid].state \notin PtraceStops THEN t
    ELSE [t EXCEPT ![pid].state = IF @ = "groupstop" THEN "stopped" ELSE "running",
                   ![pid].forked = <<>>, ![pid].traced = FALSE]

\* ptrace::detach(pid, sig), as ptrace_cont but the process is traced no
\* more: a delivered SIGTRAP ends it (the root command stays a zombie until
\* dbgee waits for it), a delivered SIGSTOP stops it, and a process detached
\* in the stop of a delivered SIGSTOP stays stopped
ptrace_detach(t, pid, sig) ==
    IF t[pid].state \notin PtraceStops THEN t
    ELSE IF t[pid].state = "groupstop"
    THEN [t EXCEPT ![pid].state = "stopped", ![pid].traced = FALSE]
    ELSE IF sig = <<>> \/ t[pid].state = "forked"
    THEN [t EXCEPT ![pid].state = "running", ![pid].forked = <<>>, ![pid].traced = FALSE]
    ELSE [t EXCEPT ![pid].state =
                       CASE sig = <<"SIGTRAP">> ->
                              IF hook.start_command_pid = <<pid>> THEN "signaled"
                              ELSE "reaped"
                         [] sig = <<"SIGSTOP">> -> "stopped"
                         [] OTHER -> "running",
                   ![pid].delivered = Append(@, sig[1]),
                   ![pid].traced = FALSE]

\* a hook condition that every exec meets
hooks_every_exec(pid) == TRUE

\* HookExecutableCondition::hooks
hooks(pid) == tracees[pid].exe = AbsoluteOf(cmd.debuggee)

\* run_hook: one turn of its loop, with one turn of the loop of wait_sigtrap;
\* pid: the process whose event wait returns
WaitSigtrap(pid) ==
    /\ pc = "wait_sigtrap"
    /\ IF ~HasChildren
       THEN /\ Finish(<<"wait:ECHILD">>, Ok(0))
            /\ UNCHANGED <<hookvars, argv, writers, cachevars>>
       ELSE /\ IsWaitedFor(pid)
            /\ tracees[pid].state \in PtraceStops \cup {"exited", "signaled"}
            /\ UNCHANGED exit_code
            /\ CASE tracees[pid].state = "trapped" ->
                     /\ events' = Append(events, "wait:Stopped(SIGTRAP)")
                     /\ IF hooks(pid)
                        THEN /\ pc' = "detach"
                             /\ hook' = [hook EXCEPT
                                   !.tracefork = @ \/ hook.start_command_pid = <<pid>>,
                                   !.hooked_command_pid = <<pid>>,
                                   !.hooked_command_path = <<tracees[pid].exe>>]
                             /\ UNCHANGED tracees
                        ELSE /\ pc' = pc
                             /\ hook' = [hook EXCEPT
                                   !.tracefork = @ \/ hook.start_command_pid = <<pid>>]
                             /\ tracees' = ptrace_cont(tracees, pid, <<>>)
                 [] tracees[pid].state = "forked" ->
                     /\ events' = Append(events, "wait:PtraceEvent")
                     /\ tracees' = ptrace_cont(ptrace_cont(tracees, pid, <<>>),
                                               tracees[pid].forked[1], <<>>)
                     /\ UNCHANGED <<pc, hook>>
                 [] tracees[pid].state \in {"forkstopped", "groupstop", "sigstop"} ->
                     /\ events' = Append(events, "wait:Stopped("
                                            \o StopSignal(tracees[pid].state) \o ")")
                     /\ tracees' = ptrace_cont(tracees, pid,
                                               <<StopSignal(tracees[pid].state)>>)
                     /\ UNCHANGED <<pc, hook>>
                 [] tracees[pid].state = "exited" ->
                     /\ events' = Append(events, "wait:Exited")
                     /\ tracees' = [tracees EXCEPT ![pid].state = "reaped"]
                     /\ UNCHANGED <<pc, hook>>
                 [] tracees[pid].state = "signaled" ->
                     /\ events' = Append(events, "wait:Signaled")
                     /\ tracees' = [tracees EXCEPT ![pid].state = "reaped"]
                     /\ UNCHANGED <<pc, hook>>
    /\ UNCHANGED <<hookfixed, adapter>>

\* a run_hook that goes on to the debugger without the detach
DetachHooked_skipped(detach_ok) ==
    /\ pc = "detach"
    /\ pc' = "hook_build_debugger"
    /\ UNCHANGED <<hookfixed, adapter, hookvars, events, exit_code>>

\* run_hook: ptrace::detach(hooked_command_pid, SIGSTOP)
DetachHooked(detach_ok) ==
    /\ pc = "detach"
    /\ IF detach_ok
       THEN /\ tracees' = [tracees EXCEPT ![hook.hooked_command_pid[1]].state = "stopped",
                                          ![hook.hooked_command_pid[1]].traced = FALSE]
            /\ pc' = "hook_build_debugger"
            /\ events' = Append(events, "ptrace::detach(SIGSTOP)")
            /\ UNCHANGED exit_code
       ELSE /\ Finish(<<>>, Err("Failed to detach from the hooked process"))
            /\ UNCHANGED tracees
    /\ UNCHANGED <<hookfixed, adapter, hook>>

\* run_hook: build_debugger for the hooked process.  in_path: whether the named
\* backend's command is in PATH; installed: the commands in PATH
HookBuildDebugger(in_path, installed) ==
    /\ pc = "hook_build_debugger"
    /\ LET kind == IF cmd.debugger = "auto"
                   THEN detect_debugger("linux", fs, hook.hooked_command_path[1],
                                        installed).kind
                   ELSE IF cmd.debugger = "stop-and-write-pid" \/ in_path
                   THEN cmd.debugger
                   ELSE ""
       IN  IF kind # ""
           THEN /\ adapter' = NewDebugger(kind)
                /\ pc' = "attach"
                /\ events' = Append(events, "build_debugger:Ok")
                /\ UNCHANGED exit_code
           ELSE /\ Finish(<<"build_debugger:Err">>, Err("is not in PATH"))
                /\ UNCHANGED adapter
    /\ UNCHANGED <<hookfixed, hookvars>>

\* run_hook: debugger.attach(hooked_command_pid, hooked_command_path, terminal)
Attach(attach_ok) ==
    /\ pc = "attach"
    /\ IF attach_ok
       THEN /\ pc' = "wait_pid_exit_and_detach_other"
            /\ events' = Append(events, "attach:" \o ToString(hook.hooked_command_pid[1]))
            /\ UNCHANGED exit_code
       ELSE Finish(<<"attach:" \o ToString(hook.hooked_command_pid[1])>>,
                   Err("debugger failed to attach"))
    /\ UNCHANGED <<hookfixed, adapter, hookvars>>

\* wait_pid_exit_and_detach_other: one turn of its loop.  An ECHILD of wait is
\* not the ESRCH the loop looks for, so it is an unexpected error; a Signaled
\* status goes to the last arm, whose detach fails and is only logged
WaitPidExitAndDetachOther(pid) ==
    /\ pc = "wait_pid_exit_and_detach_other"
    /\ IF ~HasChildren
       THEN /\ Finish(<<"wait:ECHILD">>, Err("Unexpected error. Waiting for SIGTRAP failed."))
            /\ UNCHANGED tracees
       ELSE /\ IsWaitedFor(pid)
            /\ tracees[pid].state \in PtraceStops \cup {"exited", "signaled"}
            /\ CASE tracees[pid].state = "exited" ->
                     /\ tracees' = [tracees EXCEPT ![pid].state = "reaped"]
                     /\ IF hook.start_command_pid = <<pid>>
                        THEN Finish(<<"wait:Exited">>, Ok(0))
                        ELSE /\ events' = Append(events, "wait:Exited")
                             /\ UNCHANGED <<pc, exit_code>>
                 [] tracees[pid].state = "signaled" ->
                     /\ tracees' = [tracees EXCEPT ![pid].state = "reaped"]
                     /\ events' = Append(events, "wait:Signaled")
                     /\ UNCHANGED <<pc, exit_code>>
                 [] tracees[pid].state = "forked" ->
                     /\ tracees' = ptrace_detach(ptrace_detach(tracees, pid, <<>>),
                                                 tracees[pid].forked[1], <<>>)
                     /\ events' = Append(events, "wait:PtraceEvent")
                     /\ UNCHANGED <<pc, exit_code>>
                 [] tracees[pid].state \in {"trapped", "forkstopped", "groupstop",
                                            "sigstop"} ->
                     /\ tracees' = ptrace_detach(tracees, pid,
                                                 <<StopSignal(tracees[pid].state)>>)
                     /\ events' = Append(events, "wait:Stopped("
                                            \o StopSignal(tracees[pid].state) \o ")")
                     /\ UNCHANGED <<pc, exit_code>>
    /\ UNCHANGED <<hookfixed, adapter, hook>>

NextHook ==
    \/ build_hook_conditions
    \/ \E spawn_ok \in BOOLEAN, pid \in HookPids : spawn_traced_command(spawn_ok, pid)
    \/ \E pid \in HookPids, exe \in Exes : TraceeExecs(pid, exe)
    \/ \E pid, new \in HookPids : TraceeForks(pid, new)
    \/ \E pid \in HookPids : TraceeExits(pid)
    \/ \E pid \in HookPids : TraceeKilled(pid)
    \/ \E pid \in HookPids : TraceeBorn(pid)
    \/ \E pid \in HookPids : TraceeSignalled(pid)
    \/ \E pid \in HookPids : WaitSigtrap(pid)
    \/ \E detach_ok \in BOOLEAN : DetachHooked(detach_ok)
    \/ \E in_path \in BOOLEAN, installed \in InstalledSets : HookBuildDebugger(in_path, installed)
    \/ \E attach_ok \in BOOLEAN : Attach(attach_ok)
    \/ \E pid \in HookPids : WaitPidExitAndDetachOther(pid)

SpecHook == InitHook /\ [][NextHook]_vars

\* SpecHook with the scheduling of the kernel: a process that can run does
\* run (it stops where it has to stop, does its first exec, and exits when
\* it goes on running without another exec), wait
\* returns every status that is pending, and dbgee goes on when it can
HookFairness ==
    /\ \A pid \in HookPids :
         /\ WF_vars(WaitSigtrap(pid))
         /\ WF_vars(TraceeBorn(pid))
         /\ WF_vars(\E exe \in Exes : tracees[pid].exe = "" /\ TraceeExecs(pid, exe))
         /\ WF_vars(TraceeExits(pid))
    /\ WF_vars(build_hook_conditions)
    /\ WF_vars(\E spawn_ok \in BOOLEAN, pid \in HookPids : spawn_traced_command(spawn_ok, pid))

\* the trace loop does not depend on the debugger that is asked for: one
\* command line and one executable
InitHookFair ==
    /\ InitHook
    /\ cmd.debugger = "gdb"
    /\ fs[TargetPath] = RegularFile({"r", "w", "x"}, ProgElf)

SpecHookFair == InitHookFair /\ [][NextHook]_vars /\ HookFairness

----------------------------------------------------------------------------
(* Claims about the installer and the detection (SpecInstaller). *)

\* a regular file with an execute bit, which is no shim, and has no backup beside it
InstallableAt(f) ==
    /\ is_executable(f[TargetPath])
    /\ ~IsShim(f[TargetPath])
    /\ ~f[BackupPath].exists

\* C1: for every regular executable that is no shim and has no -original sibling,
\* a successful install followed by an uninstall leaves the target with its
\* original contents and mode bits, and leaves no -original file.
C1_InstallUninstallRestores ==
    \A i \in 1..(Len(calls) - 1) :
        ( /\ calls[i].op = "install" /\ calls[i].ok
          /\ calls[i + 1].op = "uninstall"
          /\ InstallableAt(calls[i].pre) )
        => /\ PostOf(i + 1)[TargetPath] = calls[i].pre[TargetPath]
           /\ ~PostOf(i + 1)[BackupPath].exists

\* C2: install on a target that is a shim fails, uninstall on a target that is
\* no shim fails, and the failed call leaves both files as they were.
C2_RefusedCallsChangeNothing ==
    \A i \in 1..Len(calls) :
        /\ (calls[i].op = "install" /\ IsShim(calls[i].pre[TargetPath]))
             => (~calls[i].ok /\ PostOf(i) = calls[i].pre)
        /\ (calls[i].op = "uninstall" /\ ~IsShim(calls[i].pre[TargetPath]))
             => (~calls[i].ok /\ PostOf(i) = calls[i].pre)

\* the target holds the program it held at the start, and there is no backup
Unwrapped == fs[TargetPath] = fs0[TargetPath] /\ ~fs[BackupPath].exists

\* the target holds a shim and the backup holds the program
Wrapped == IsShim(fs[TargetPath]) /\ fs[BackupPath] = fs0[TargetPath]

\* C3: from an unwrapped target without a backup, after any sequence of completed
\* installs and uninstalls the disk is either unwrapped or wrapped.
C3_UnwrappedOrWrapped ==
    ( /\ fs0[TargetPath].exists
      /\ ~IsShim(fs0[TargetPath])
      /\ ~fs0[BackupPath].exists )
    => (Unwrapped \/ Wrapped)

\* C4: detection answers true exactly when the file can be read and its first line
\* and its second line are the template's first and second line.
C4_DetectionIsTwoLineEquality ==
    \A d \in DebuggeeNames :
        check_if_wrapped(fs, d)
          <=> ( /\ CanOpen(fs[TargetPath])
                /\ Len(LinesOf(fs[TargetPath])) >= 2
                /\ LinesOf(fs[TargetPath])[1] = TemplateLine1
                /\ LinesOf(fs[TargetPath])[2] = TemplateLine2 )

----------------------------------------------------------------------------
(* Claims about the controlled start, the launch and the exit code (Spec). *)

\* the event e is in the history
Happened(e) == \E i \in 1..Len(events) : events[i] = e

\* the event a comes before the event at index i
HappenedBefore(a, i) == \E j \in 1..(i - 1) : events[j] = a

\* C5: whenever run_and_stop_dbgee returns a pid, the child with that pid is
\* stopped, is not traced, and has run no instruction of the target program.
C5_StartedChildIsStopped ==
    [][ (pc # "started" /\ pc' = "started")
          => /\ child'.kind = "debuggee"
             /\ child'.state = "stopped"
             /\ ~child'.traced
             /\ ~child'.user_code ]_vars

\* the controlled start has returned the pid of a child that went through its exec
C5_Witness ==
    /\ pc = "started"
    /\ child.state = "stopped"
    /\ child.image = TargetPath
    /\ Happened("waitpid:Stopped")

\* the event that ends the launch step of an adapter
LaunchOkOf(kind) ==
    IF kind \in {"dlv", "debugpy"} THEN "launch_debugger_server:Ok"
    ELSE "run_and_stop_dbgee:Ok"

\* C6: in every run, the terminal's open comes only after the launch step has
\* completed (the controlled start has returned, or the server was spawned and
\* the wait after the spawn has elapsed); if the launch fails, it never comes.
C6_TerminalOpensAfterLaunch ==
    \A i \in 1..Len(events) :
        events[i] = "terminal.open"
          => /\ HappenedBefore(LaunchOkOf(adapter.kind), i)
             /\ adapter.kind \in {"dlv", "debugpy"} => HappenedBefore("spawn", i)
             /\ adapter.kind \in GdbCompatible => HappenedBefore("fork", i)

\* a terminal was opened for a server-style debugger
C6_Witness ==
    /\ adapter.kind = "dlv"
    /\ Happened("terminal.open")
    /\ pc = "wait"

\* C7: the exit code is 1 when the subcommand returned an error, 0 when set or
\* unset succeeded, and for run the exit status of the waited process, 130 when a
\* signal killed it, 0 when waitpid reported no such child; wait_pid_exit returns
\* on no other result of waitpid.
C7_ExitCodeIsFunctionOfOutcome ==
    pc = "exited"
      => /\ Len(exit_code) = 1
         /\ events[Len(events)] = "Err" => exit_code[1] = 1
         /\ (events[Len(events)] = "Ok" /\ cmd.sub \in {"set", "unset"}) => exit_code[1] = 0
         /\ (events[Len(events)] = "Ok" /\ cmd.sub = "run")
              => LET waited == events[Len(events) - 1]
                 IN  CASE waited = "waitpid:Exited" -> exit_code[1] = child.status
                       [] waited = "waitpid:Signaled" -> exit_code[1] = 130
                       [] waited = "waitpid:ECHILD" -> exit_code[1] = 0
                       [] OTHER -> FALSE

\* a run ended with the code for a debuggee that a signal killed
C7_Witness ==
    /\ pc = "exited"
    /\ cmd.sub = "run"
    /\ Happened("waitpid:Signaled")
    /\ exit_code = <<130>>

\* Debugger::run has returned Ok
LaunchSucceeded == Happened("Debugger::run:Ok")

\* the attach information holds a pid or a port that is not empty
HasCoordinates(info) ==
    \/ "pid" \in DOMAIN info /\ info.pid # ""
    \/ "debuggerPort" \in DOMAIN info /\ info.debuggerPort # ""

\* both queries succeed on the adapter, and name a pid or a port
BothQueriesSucceed(a) ==
    /\ build_attach_commandline(a).ok
    /\ build_attach_commandline(a).value[Len(build_attach_commandline(a).value)]
         \notin {"", "localhost:"}
    /\ build_attach_information(a).ok
    /\ HasCoordinates(build_attach_information(a).value)

\* C8, as the code has it: after a successful launch both queries succeed for
\* the GDB-like, LLDB-like and Delve adapters and name a pid or a port; for
\* debugpy the attach information succeeds and names the port, and the attach
\* command line always fails.
C8_QueriesAfterLaunch ==
    LaunchSucceeded
      => /\ adapter.kind \in {"gdb", "lldb", "dlv"} => BothQueriesSucceed(adapter)
         /\ adapter.kind = "debugpy"
              => /\ ~build_attach_commandline(adapter).ok
                 /\ build_attach_information(adapter).ok
                 /\ HasCoordinates(build_attach_information(adapter).value)

\* a debugpy launch has succeeded
C8_Witness ==
    /\ LaunchSucceeded
    /\ adapter.kind = "debugpy"
    /\ adapter.port = <<DebuggerPort>>

\* C8 as stated: after a successful launch both queries succeed for every
\* adapter other than StopAndWritePid.
C8_AsStated ==
    (LaunchSucceeded /\ adapter.kind # "stop-and-write-pid") => BothQueriesSucceed(adapter)

\* C9: both queries of StopAndWritePid fail with an internal-bug error in every
\* state, no run, set or unset with it calls them or opens the terminal, and its
\* launch is the controlled start followed by the write of the pid file.
C9_StopAndWritePidIsNeverQueried ==
    adapter.kind = "stop-and-write-pid"
      => /\ build_attach_commandline(adapter) =
              Err("[BUG] build_attach_commandline should not be called for StopAndWritePidDebugger")
         /\ build_attach_information(adapter) =
              Err("[BUG] butild_attach_information should not be called for StopAndWritePidDebugger")
         /\ ~Happened("build_attach_commandline")
         /\ ~Happened("build_attach_information")
         /\ ~Happened("terminal.open")
         /\ LaunchSucceeded
              => /\ \E i \in 1..Len(events) :
                       /\ events[i] = "write:/tmp/dbgee_pid"
                       /\ HappenedBefore("run_and_stop_dbgee:Ok", i)
                 /\ pid_file = <<ToString(child.pid)>>

\* a launch of StopAndWritePid has succeeded
C9_Witness ==
    /\ adapter.kind = "stop-and-write-pid"
    /\ LaunchSucceeded
    /\ pid_file # <<>>

\* C10: a run with an adapter other than debugpy launches the canonical target
\* path with -original appended exactly when the target is a shim, and the
\* target path otherwise; the file it launches is never a shim.
C10_LaunchesOriginalIffShim ==
    (cmd.sub = "run" /\ adapter.kind # "debugpy" /\ child.state # "none")
      => /\ debuggee_abspath[1] =
              (IF IsShim(fs[TargetPath]) THEN BackupPath ELSE TargetPath)
         /\ ~IsShim(fs[debuggee_abspath[1]])

----------------------------------------------------------------------------
(* Claims about the selection of the debugger and about errors (Spec). *)

\* the platform the detection ran for
DetectedOs == IF Happened("detect_debugger:linux") THEN "linux" ELSE "macos"

\* the order the claim gives: Delve, GDB (Linux) or LLDB (macOS), debugpy, StopAndWritePid
ClaimedOrder ==
    <<"dlv", IF DetectedOs = "linux" THEN "gdb" ELSE "lldb", "debugpy", "stop-and-write-pid">>

\* C11: with no debugger named, the candidates are tried in the order Delve, GDB
\* or LLDB, debugpy, StopAndWritePid; every candidate before the adapter returned
\* failed to construct or did not answer supports = true, and the adapter returned
\* constructed and answered true.  With a debugger named, that adapter is
\* constructed and no supports query is made.
C11_FirstSupportedCandidate ==
    adapter.kind # ""
      => IF cmd.debugger = "auto"
         THEN \E k \in 1..Len(ClaimedOrder) :
                  /\ adapter.kind = ClaimedOrder[k]
                  /\ Len(events) >= k + 1
                  /\ events[1] = "detect_debugger:" \o DetectedOs
                  /\ events[k + 1] = "supports(" \o ClaimedOrder[k] \o "):true"
                  /\ \A j \in 1..(k - 1) :
                         events[j + 1] \in {"build(" \o ClaimedOrder[j] \o "):Err",
                                            "supports(" \o ClaimedOrder[j] \o "):false",
                                            "supports(" \o ClaimedOrder[j] \o "):Err"}
         ELSE /\ adapter.kind = cmd.debugger
              /\ \A i \in 1..Len(events), d \in Debuggers, r \in {"true", "false", "Err"} :
                     events[i] # "supports(" \o d \o "):" \o r

\* debugpy was chosen after Delve failed to construct and the native debugger
\* was skipped
C11_Witness ==
    /\ cmd.debugger = "auto"
    /\ adapter.kind = "debugpy"
    /\ Happened("build(dlv):Err")
    /\ Happened("supports(debugpy):true")

\* the target is a text file that is no Python file: neither a Go binary, nor
\* another compiled binary, nor a Python file
NeitherBinaryNorPython(file) ==
    /\ file.exists /\ file.kind = "file"
    /\ file.lines # <<>>
    /\ file.lines[1] # ErrLine
    /\ file.lines # ProgPython

TargetOf == fs[AbsoluteOf(cmd.debuggee)]

\* a dbgee process that has not yet reached the work of its subcommand's adapter
BeforeWork == pc \in {"build_debugger", "check_executable", "run", "set", "unset"}

\* the user's errors: a Target that is missing or not an executable file, set
\* on a shim, unset on a file that is no shim
UserError ==
    \/ ~(TargetOf.exists /\ TargetOf.kind = "file" /\ "x" \in TargetOf.mode)
    \/ cmd.sub = "set" /\ IsShim(TargetOf)
    \/ cmd.sub = "unset" /\ ~IsShim(TargetOf)

\* C13: for run, set and unset, while the Target is missing or not executable,
\* or set is applied to a shim, or unset to a file that is no shim, every step
\* of dbgee leaves the files, the PID file and the processes as they were and
\* dbgee ends with exit code 1 (unless an interrupt ends it first); and a step
\* that fails for a named debugger missing from PATH is dbgee's first step,
\* changes nothing and ends dbgee with exit code 1.
C13_ErrorsBeforeSideEffects ==
    [][ /\ (BeforeWork /\ UserError)
          => /\ fs' = fs /\ pid_file' = pid_file /\ child' = NoChild
             /\ pc' \in {"check_executable", "set", "unset", "exited", "killed"}
             /\ pc' = "exited" => exit_code' = <<1>>
        /\ (pc = "build_debugger" /\ cmd.debugger # "auto" /\ pc' = "exited")
          => /\ events = <<>> /\ child = NoChild
             /\ fs' = fs /\ pid_file' = pid_file /\ child' = NoChild
             /\ exit_code' = <<1>> ]_vars


\* where dbgee is during the controlled start, from before the fork until
\* kill9_child_by_sigint has returned
InControlledStart == pc \in {"fork", "waitpid", "kill", "detach", "set_handler"}

\* C16: during the controlled start, from before the fork until the kill
\* handler is installed, the SIGINT disposition of dbgee is 'ignore', and no
\* step taken there, a SIGINT included, terminates dbgee by the signal.
C16_SigintIgnoredDuringStart ==
    [][ InControlledStart => (sigint = "ignore" /\ pc' # "killed") ]_vars

\* a SIGINT arrived during the controlled start of the first dbgee, which went on
C16_Witness ==
    /\ runs = 1 /\ sigints = 1
    /\ pc = "set_handler" /\ sigint = "ignore"
    /\ child.state = "stopped"

\* C17: once the controlled start has returned the stopped child p, a SIGINT
\* does not end dbgee: the handler sends SIGKILL to p and to no other pid; a p
\* that has not ended yet dies by the signal; and when the wait of dbgee
\* observes that death, it returns 130.
C17_SigintKillsTheChild ==
    [][ /\ (sigint = "kill9" /\ sigints' = sigints + 1)
          => /\ pc' # "killed"
             /\ \E i \in 1..Len(events') : events'[i] = KillEvent(child.pid)
             /\ \A i \in 1..Len(events') :
                  \A pid \in (Pids \cup HookPids \cup {0}) \ {child.pid} :
                     events'[i] # KillEvent(pid)
             /\ child.state \in {"stopped", "running"} => child'.state = "killed"
             /\ child'.pid = child.pid
        /\ (pc = "wait" /\ pc' = "exited" /\ sigint = "kill9" /\ child.state = "killed"
              /\ child'.state = "reaped")
          => exit_code' = <<exitcode_signaled>> ]_vars

\* a SIGINT killed the stopped child, and the wait returned 130
C17_Witness ==
    /\ pc = "exited" /\ exit_code = <<130>>
    /\ sigints = 1 /\ runs = 1
    /\ Happened(KillEvent(4711))
    /\ Happened("waitpid:Signaled")

\* C17 as stated: after a SIGINT that came once the controlled start had
\* returned, the wait observes a death by signal and returns 130.
C17_AsStated ==
    (pc = "exited" /\ Happened(KillEvent(4711)) /\ Happened("Debugger::run:Ok"))
      => exit_code = <<130>>

\* C18: once the terminal has been opened with the debugger attached to the
\* debuggee, and dbgee only waits for the debuggee, a SIGINT to dbgee has the
\* default behaviour: no signal is sent to the debuggee, which stays as it was.
C18_SigintIsDefaultWhileWaiting ==
    [][ (pc = "wait" /\ child.kind = "debuggee" /\ Happened("terminal.open")
           /\ sigints' = sigints + 1)
          => /\ child' = child
             /\ ~\E i \in 1..Len(events') : events'[i] = KillEvent(child.pid) ]_vars

\* the forked child of the controlled start failed to exec the target: its image
\* is still that of dbgee, and it has ended with the exit code of main for an error
ExecFailed ==
    /\ child.kind = "debuggee" /\ child.image = "dbgee"
    /\ child.state \in {"exited", "reaped"}
    /\ child.status = main(Err("exec failed"))

StartCmdFinished == \E st \in ExitStatuses : Happened("wait:" \o ToString(st))

\* C20: for set with a start command, the shim is installed when the start
\* command is spawned and for as long as dbgee waits for it, and once the
\* start command has finished, whatever its exit status, the Target is no shim
\* any more; for set without a start command that succeeds, the Target is a
\* shim when set has returned.
C20_ShimLivesAsLongAsStartCmd ==
    /\ pc \in {"start_cmd", "wait_start_cmd"} => IsShim(TargetOf)
    /\ (pc = "exited" /\ cmd.sub = "set" /\ cmd.start_cmd # <<>> /\ StartCmdFinished)
         => /\ ~IsShim(TargetOf)
            /\ exit_code = <<0>>
    /\ (pc = "exited" /\ cmd.sub = "set" /\ cmd.start_cmd = <<>> /\ exit_code = <<0>>)
         => IsShim(TargetOf)

\* an existing regular file with at least one execute bit
ValidTarget(file) == file.exists /\ file.kind = "file" /\ "x" \in file.mode

\* C15: every version of get_valid_executable_path succeeds exactly for a path
\* that resolves to an existing regular file with an execute bit (SpecInstaller:
\* asked of the Target in every state the installer reaches), and an install
\* or uninstall of a Target that is no such file fails and changes no file.
C15_ValidityCheckInEveryVersion ==
    /\ \A name \in DebuggeeNames :
         /\ get_valid_executable_path(fs, name).ok <=> ValidTarget(fs[AbsoluteOf(name)])
         /\ get_valid_executable_path_first(fs, name).ok
              <=> ValidTarget(fs[AbsoluteOf(name)])
    /\ \A i \in 1..Len(calls) :
         ~ValidTarget(calls[i].pre[TargetPath])
           => ~calls[i].ok /\ PostOf(i) = calls[i].pre

----------------------------------------------------------------------------
(* Claims about hook mode (SpecHook). *)

\* C14: in hook mode, when build_debugger fails because the selected
\* debugger's command is not in PATH, the traced command has not been spawned
\* and no process has been detached in the stopped state.
C14_HookBackendErrorBeforeSpawn ==
    (pc = "exited" /\ Happened("build_debugger:Err"))
      => /\ ~Happened("spawn_traced_command")
         /\ ~Happened("ptrace::detach(SIGSTOP)")
         /\ \A pid \in HookPids : tracees[pid].state \in {"none"}


----------------------------------------------------------------------------
(* Claims about the command line of the shim (SpecRunCommand). *)

\* the run invocation the shim of the set invocation c is to make
ExpectedRun(c) ==
    [ok |-> TRUE, sub |-> "run",
     log_level |-> Opt(c, "log_level"),
     vscode_fifo_prefix |-> Opt(c, "vscode_fifo_prefix"),
     debugger |-> IF c.debugger = "auto" THEN "" ELSE c.debugger,
     terminal |-> c.terminal,
     debuggee |-> get_debuggee_backup_name(AbsoluteOf(c.debuggee)),
     args |-> <<"$@">>]

\* C21: for every set invocation, the command line build_run_command put in
\* the shim, split into words by the shell and parsed by dbgee, is a run
\* invocation with the same options and option values, with the canonical path
\* of the debuggee plus "-original" as its debuggee, followed by the arguments
\* of the shim.
C21_RunCommandRoundTrip ==
    argv # <<>> => get_matches_from(argv[1]) = ExpectedRun(cmd)

----------------------------------------------------------------------------
(* Claims about the terminals (Spec). *)

\* send_attach_request gave up: no path of the fifo, or no fifo at the path
RequestNotSent ==
    Happened("send_attach_request:Err(no path)")
      \/ Happened("send_attach_request:Err(no fifo)")

\* C22: when VsCode::open cannot build the path of the request fifo, or the
\* fifo is not there, open still returns success and the write of the attach
\* information has been started; when the step of the attach information
\* fails, open fails and no attach request is sent.
C22_RequestIsBestEffort ==
    /\ RequestNotSent
         => /\ Happened("Debugger::run:Ok")
            /\ Happened("send_attach_information")
            /\ writers.information # "none"
            /\ writers.request = "none"
            /\ ~Happened("send_attach_request")
    /\ Happened("send_attach_information:Err")
         => /\ pc = "exited"
            /\ exit_code # <<0>>
            /\ events[Len(events)] = "Err"
            /\ ~Happened("send_attach_request")
            /\ ~RequestNotSent
            /\ writers = NoWriters

\* both ways of giving up the request, and a failed information step, happen
C22_Witness ==
    /\ Happened("send_attach_request:Err(no path)")
    /\ writers.information = "blocked"
    /\ pc = "wait"

C22_WitnessInformationFails ==
    Happened("send_attach_information:Err") /\ pc = "exited"

\* the attach command line of the adapter, <<>> when it has none
AttachWords ==
    IF adapter = NoDebugger THEN <<>>
    ELSE LET c == build_attach_commandline(adapter)
         IN  IF c.ok THEN c.value ELSE <<>>

\* the places in the history of the process where a command other than the
\* session probe was issued
Issued ==
    {i \in 2..Len(events) :
        /\ events[i - 1] \in {"Command::status", "Command::spawn"}
        /\ events[i] \notin {"tmux ls", "sudo -u alice tmux ls"}}

\* Tmux::open was called: it has read SUDO_USER
TmuxOpened == Happened("SUDO_USER=alice") \/ Happened("SUDO_USER=")

\* the layout the multiplexer terminal was constructed with
ConfiguredLayout ==
    IF cmd.terminal = "tmuxw" THEN <<"new-window">> ELSE <<"splitw", "-h">>

C23_WitnessNewSession ==
    /\ Happened("tmux ls") /\ Happened("status:1")
    /\ \E i \in Issued : events[i] = "tmux new-session dlv connect localhost:5679"

\* VsCode::open was called: it went into send_attach_information
VsCodeOpened ==
    Happened("send_attach_information") \/ Happened("send_attach_information:Err")

\* the places in the history of the process where a terminal was opened
Opens == {i \in 1..Len(events) : events[i] = "terminal.open"}

\* C24: in a run of the debugpy adapter, whatever terminal was given, the open
\* of the multiplexer terminal is never called; the open of the VsCode
\* terminal is called only after the server was spawned, at most once, and
\* exactly once when launch_debugger_server has returned the pid and run has
\* gone on.
C24_PythonOpensVsCodeOnly ==
    adapter.kind = "debugpy" =>
      /\ ~TmuxOpened
      /\ Cardinality(Opens) <= 1
      /\ \A i \in Opens : HappenedBefore("spawn", i) /\ VsCodeOpened
      /\ (Happened("launch_debugger_server:Ok") /\ pc \notin {"open_terminal", "killed"})
           => Cardinality(Opens) = 1

\* the debugpy adapter was given a multiplexer window and opened VsCode
C24_Witness ==
    /\ adapter.kind = "debugpy" /\ cmd.terminal = "tmuxw"
    /\ Happened("spawn") /\ Happened("send_attach_information")
    /\ writers.information = "blocked"
    /\ pc = "wait"

----------------------------------------------------------------------------
(* Claims about the loops of hook mode (SpecHook). *)

\* the process is stopped in the trap of its execve, with dbgee as its tracer
Trapped(pid) == tracees[pid].state = "trapped" /\ tracees[pid].traced

\* the executable of the process is the one --hook-executable names
Matches(pid) == tracees[pid].exe = AbsoluteOf(cmd.debuggee)

\* a turn of the trace loop in which wait reported the trap of an execve
TrapReported ==
    pc = "wait_sigtrap" /\ events' = Append(events, "wait:Stopped(SIGTRAP)")

Times(e) == Cardinality({i \in 1..Len(events) : events[i] = e})

\* the call of the adapter's attach for the process the hook matched
AttachEvent ==
    IF hook.hooked_command_pid = <<>> THEN "attach:"
    ELSE "attach:" \o ToString(hook.hooked_command_pid[1])

\* C26: after a hook match, the detach with the stop signal, the construction
\* of the adapter, the adapter's attach (for the matched pid; Debugger::run is
\* never called) and the second wait loop come in this order, each at most
\* once; when the attach is called, dbgee is no more the tracer of the matched
\* process.
C26_HandoffOrder ==
    /\ Times("ptrace::detach(SIGSTOP)") <= 1
    /\ Times("build_debugger:Ok") + Times("build_debugger:Err") <= 1
    /\ Times("attach:100") + Times("attach:101") <= 1
    /\ \A i \in 1..Len(events) :
         /\ events[i] \in {"build_debugger:Ok", "build_debugger:Err"}
              => HappenedBefore("ptrace::detach(SIGSTOP)", i)
         /\ events[i] \in {"attach:100", "attach:101"}
              => /\ HappenedBefore("build_debugger:Ok", i)
                 /\ events[i] = AttachEvent
    /\ pc \in {"hook_build_debugger", "attach", "wait_pid_exit_and_detach_other"}
         => /\ Happened("ptrace::detach(SIGSTOP)")
            /\ ~tracees[hook.hooked_command_pid[1]].traced
    /\ pc = "attach" => Happened("build_debugger:Ok") /\ ~Happened(AttachEvent)
    /\ pc = "wait_pid_exit_and_detach_other" => Happened(AttachEvent)
    /\ Happened(AttachEvent) => ~tracees[hook.hooked_command_pid[1]].traced
    /\ ~Happened("fork") /\ ~Happened("spawn") /\ ~Happened("Debugger::run:Ok")

\* the process make forked was handed to the debugger, stopped and untraced
C26_Witness ==
    /\ pc = "wait_pid_exit_and_detach_other"
    /\ Happened("attach:101")
    /\ tracees[101].state = "stopped" /\ ~tracees[101].traced

\* a turn of the second wait loop
SecondLoopTurn == pc = "wait_pid_exit_and_detach_other" /\ events' # events

\* in this step wait reports the end of the root command, by exit or by signal
RootReaped ==
    \E pid \in HookPids :
      /\ hook.start_command_pid = <<pid>>
      /\ tracees[pid].state \in {"exited", "signaled"}
      /\ tracees'[pid].state = "reaped"

\* C27: the turn of wait_pid_exit_and_detach_other in which wait reports that
\* the root command has ended, by an exit or by a signal, or that no child
\* is left, returns success.
C27_SecondLoopReturnsSuccess ==
    [][(SecondLoopTurn /\ (RootReaped \/ ~HasChildren))
         => (pc' = "exited" /\ exit_code' = <<0>>)]_vars

----------------------------------------------------------------------------
(* Claims about the workers of the VsCode terminal (SpecVsCode). *)

\* C28: VsCode::open returns without waiting for a reader: every write of a
\* fifo is made by a worker of its own and completes only after open has
\* returned, when the reader of that fifo comes; a worker that waits for its
\* reader can go on whatever the other worker does; after an open that
\* returned success the worker of the attach information has been started.
C28_OpenDoesNotWaitForReaders ==
    /\ \A fifo \in {"information", "request"} :
         /\ writers[fifo] = "written"
              => \E i \in 1..Len(events) :
                    /\ events[i] = "write_all:" \o fifo
                    /\ HappenedBefore("Debugger::run:Ok", i)
         /\ (writers[fifo] = "blocked" /\ pc \notin {"exited", "killed"})
              => ENABLED ReaderOpens(fifo)
    /\ (Happened("Debugger::run:Ok") /\ VsCodeOpened) => writers.information # "none"

\* open has returned and dbgee waits for the debuggee; the request was read,
\* the attach information has no reader yet
C28_Witness ==
    /\ pc = "wait"
    /\ writers = [information |-> "blocked", request |-> "written"]

\* open has returned and no fifo has a reader
C28_WitnessNoReader ==
    /\ pc = "wait"
    /\ writers = [information |-> "blocked", request |-> "blocked"]

----------------------------------------------------------------------------
(* Claims about the cache of command outputs (SpecCache). *)

\* C29: CMD_OUTPUT_CACHE only grows: a key that is in it stays in it with the
\* same value; a call for a key that is in it returns the stored value and
\* does not run the command, whatever has become of the file; a call whose
\* command cannot be started or whose output is not UTF-8 adds no entry.
C29_CacheOnlyGrows ==
    [][/\ \A k \in DOMAIN cmd_cache :
            k \in DOMAIN cmd_cache' /\ cmd_cache'[k] = cmd_cache[k]
       /\ runs' # runs =>
            /\ lookup'.key \in DOMAIN cmd_cache
                 => /\ lookup'.result = Ok(cmd_cache[lookup'.key])
                    /\ ~lookup'.ran
                    /\ events' = events
            /\ ~lookup'.result.ok => cmd_cache' = cmd_cache
            /\ (lookup'.key \notin DOMAIN cmd_cache /\ lookup'.result.ok)
                 => /\ lookup'.ran
                    /\ DOMAIN cmd_cache' = DOMAIN cmd_cache \cup {lookup'.key}
                    /\ cmd_cache'[lookup'.key] = lookup'.result.value
      ]_vars

\* the output of file was cached, the debuggee was replaced by its shim, and
\* a second call returned the output for the file that was there before
C29_Witness ==
    /\ "file,/tmp/hello" \in DOMAIN cmd_cache
    /\ cmd_cache["file,/tmp/hello"] # file_output(fs, "/tmp/hello")
    /\ lookup = [key |-> "file,/tmp/hello", result |-> Ok(cmd_cache["file,/tmp/hello"]),
                 ran |-> FALSE]
    /\ Times("Command::output:file,/tmp/hello") = 1

----------------------------------------------------------------------------
(* Claims about the queries of the adapters (Spec). *)

\* the adapters that have coordinates to attach to
Attachable == {"gdb", "lldb", "dlv", "debugpy"}

\* a query of the adapter for the coordinates to attach to returns a value
InformationGiven == build_attach_information(adapter).ok
CommandlineGiven == build_attach_commandline(adapter).ok

\* the debuggee, or the debugger server, was launched
ProcessLaunched ==
    Happened("run_and_stop_dbgee:Ok") \/ Happened("launch_debugger_server:Ok")

\* C30 as stated: the queries of the gdb, lldb, dlv and debugpy adapters
\* for the coordinates to attach to fail unless a launch has succeeded.
C30_AsStated ==
    (adapter.kind \in Attachable /\ ~ProcessLaunched)
      => ~InformationGiven /\ ~CommandlineGiven

\* C30: the queries of the gdb and lldb adapters fail unless run_and_stop_dbgee
\* has succeeded; the queries of the dlv and debugpy adapters fail until
\* Debugger::run has recorded the port, which it does before it launches the
\* server: from then on build_attach_information returns the port, also
\* when the launch of the server has failed.
C30_QueriesNeedRecordedCoordinates ==
    /\ (adapter.kind \in GdbCompatible /\ ~Happened("run_and_stop_dbgee:Ok"))
         => ~InformationGiven /\ ~CommandlineGiven
    /\ (adapter.kind \in {"dlv", "debugpy"} /\ debuggee_abspath = <<>>)
         => ~InformationGiven /\ ~CommandlineGiven
    /\ (adapter.kind \in {"dlv", "debugpy"} /\ debuggee_abspath # <<>>)
         => InformationGiven /\ (adapter.kind = "dlv" => CommandlineGiven)

\* the launch of the debugpy server has failed, and the adapter gives the port
C30_Witness ==
    /\ adapter.kind = "debugpy" /\ pc = "exited" /\ debuggee_abspath # <<>>
    /\ ~Happened("spawn") /\ ~ProcessLaunched
    /\ events[Len(events)] = "Err"
    /\ InformationGiven

\* the process is in a stop of the fork of a traced process: the parent in
\* its fork event, the new child before or in the stop of its first SIGSTOP
InForkStop(pid) ==
    tracees[pid].state \in {"forked", "born", "forkstopped", "groupstop"}

\* the process runs, or has run on to a later stop or to its end
HasRun(pid) ==
    tracees[pid].state \in {"running", "trapped", "sigstop", "exited", "signaled", "reaped"}

\* C31: while the trace loop runs, a traced process that is stopped in its
\* fork event, and the new child (whether its first stop comes before or
\* after the fork event of its parent is reported), are resumed: neither
\* stays stopped.
C31_ForkResumesBoth ==
    /\ [][pc = "wait_sigtrap" =>
            \A pid \in HookPids :
              /\ (tracees[pid].state = "forked"
                    /\ events' = Append(events, "wait:PtraceEvent"))
                   => /\ tracees'[pid].state = "running"
                      /\ tracees'[tracees[pid].forked[1]].state
                           \in {"born", "running", "trapped", "sigstop", "exited",
                                "signaled", "reaped"}
              /\ (tracees[pid].state \in {"forkstopped", "groupstop"}
                    /\ tracees'[pid].state # tracees[pid].state)
                   => tracees'[pid].state \in {"groupstop", "running"}
         ]_vars
    /\ \A pid \in HookPids :
         (pc = "wait_sigtrap" /\ InForkStop(pid))
           ~> (pc # "wait_sigtrap" \/ HasRun(pid))

\* the stop of the new child was reported apart from the fork event of its
\* parent, and both run
C31_Witness ==
    /\ pc = "wait_sigtrap"
    /\ tracees[100].state = "running" /\ tracees[100].exe # ""
    /\ tracees[101].state = "running" /\ tracees[101].delivered = <<"SIGSTOP">>
    /\ Happened("wait:PtraceEvent") /\ Happened("wait:Stopped(SIGSTOP)")

\* the turn of the trace loop that answers the stop of pid in the given state
LoopAnswers(pid, state) ==
    /\ pc = "wait_sigtrap" /\ tracees[pid].state = state
    /\ events' = Append(events, "wait:Stopped(" \o StopSignal(state) \o ")")
    /\ tracees'[pid] # tracees[pid]

\* C32: in the trace loop, a process stopped before the delivery of a signal
\* other than the trap is resumed with exactly that signal delivered to it,
\* and a process stopped by the trap of an exec that does not match is
\* resumed with no signal delivered.
C32_SignalsPassedOn ==
    [][\A pid \in HookPids :
         /\ LoopAnswers(pid, "sigstop")
              => /\ tracees'[pid].state = "running"
                 /\ tracees'[pid].delivered = Append(tracees[pid].delivered, "SIGUSR1")
         /\ LoopAnswers(pid, "forkstopped")
              => /\ tracees'[pid].state = "groupstop"
                 /\ tracees'[pid].delivered = Append(tracees[pid].delivered, "SIGSTOP")
         /\ LoopAnswers(pid, "groupstop")
              => /\ tracees'[pid].state = "running"
                 /\ tracees'[pid].delivered = tracees[pid].delivered
         /\ LoopAnswers(pid, "trapped")
              => /\ ~hooks(pid)
                 /\ tracees'[pid].state = "running"
                 /\ tracees'[pid].delivered = tracees[pid].delivered
      ]_vars

\* a process that got a signal after an exec that did not match runs on, and
\* the signal is the one thing delivered to it
C32_Witness ==
    /\ pc = "wait_sigtrap"
    /\ Happened("wait:Stopped(SIGTRAP)") /\ Happened("wait:Stopped(SIGUSR1)")
    /\ \E pid \in HookPids :
         /\ tracees[pid].state = "running" /\ tracees[pid].exe # ""
         /\ tracees[pid].delivered = <<"SIGUSR1">>

\* the unit can be processed and one of its file entries satisfies the
\* predicate
HasMatchingFileEntry(unit) ==
    /\ unit.load = "ok" /\ unit.comp_dir = "found" /\ unit.line_program
    /\ \E i \in DOMAIN unit.file_names : unit.file_names[i] = "match"

\* C34: a failure in one compilation unit does not abort the scan: the scan
\* returns true if any unit has a matching file entry.
C34_UnitFailuresDoNotAbort ==
    (scan # <<>> /\ \E i \in DOMAIN units : HasMatchingFileEntry(units[i]))
      => scan[1] = Ok(TRUE)

\* every process of the traced tree has ended
AllOver ==
    \A pid \in HookPids : tracees[pid].state \in {"none", "exited", "signaled", "reaped"}

\* in this step the trace loop ends because wait has no child to report
EndsWithNoMatch ==
    pc = "wait_sigtrap" /\ events' = events \o <<"wait:ECHILD", "Ok">>

-----------------------------------------------------------------------------
(* Claims about what the installer does to other files (SpecInstaller).      *)

\* this step is a call of install on a Target that is a file and no shim
InstallOfUnwrapped ==
    /\ Len(calls') = Len(calls) + 1
    /\ calls'[Len(calls')].op = "install"
    /\ fs[TargetPath].kind = "file" /\ ~IsShim(fs[TargetPath])

\* C35: install destroys no other file: the contents of a file that is at
\* Target-original when install is called on an unwrapped Target are still
\* on disk when install has returned.
C35_InstallKeepsOtherFile ==
    [][(InstallOfUnwrapped /\ fs[BackupPath].exists /\ fs[BackupPath].kind = "file")
         => \E p \in Paths : fs'[p].exists /\ fs'[p].lines = fs[BackupPath].lines]_vars

-----------------------------------------------------------------------------
(* Claims about set with a start command (Spec).                             *)

\* C36: whenever set with a start command returns after it has installed the
\* shim, with success or with an error (the start command could not be
\* spawned or waited for), the Target is no shim any more.
C36_SetAlwaysUnwraps ==
    [][(pc \in {"start_cmd", "wait_start_cmd"} /\ pc' = "exited")
         => ~IsShim(fs'[AbsoluteOf(cmd.debuggee)])]_vars

\* the same, for the returns of set after the start command has run
C36_UnwrapsAfterStartCmd ==
    [][(pc = "wait_start_cmd" /\ pc' = "exited" /\ (root \/ "r" \in fs[AbsoluteOf(cmd.debuggee)].mode)
          /\ \E st \in ExitStatuses : Happened("wait:" \o ToString(st))')
         => ~IsShim(fs'[AbsoluteOf(cmd.debuggee)])]_vars

-----------------------------------------------------------------------------
(* Claims about the signals of the debuggee (Spec).                          *)

\* C37: the debuggee that dbgee forks begins the execution of its program
\* with the default disposition of SIGINT: the 'ignore' of dbgee is not
\* inherited across the fork and the exec.
C37_DebuggeeHasDefaultSigint ==
    (child.kind = "debuggee" /\ child.image \notin {"", "dbgee"})
      => child.sigint = "default"

-----------------------------------------------------------------------------
(* Claims about the loop after the handoff (SpecHook).                       *)

\* in this step the second loop detaches from the process pid that wait
\* reported as stopped
DetachesFrom(pid) ==
    /\ SecondLoopTurn
    /\ tracees[pid].state \in PtraceStops
    /\ tracees[pid].traced /\ ~tracees'[pid].traced

\* C38: after the handoff, a traced process the second loop detaches from
\* keeps running: the detach neither kills nor stops it, and the trap of an
\* exec is not delivered to it.
C38_DetachedProcessesKeepRunning ==
    [][\A pid \in HookPids :
         DetachesFrom(pid)
           => /\ tracees'[pid].state = "running"
              /\ tracees[pid].state = "trapped"
                   => tracees'[pid].delivered = tracees[pid].delivered
      ]_vars

\* the same for the processes the second loop takes from a fork event
C38_ForkEventsKeepRunning ==
    [][\A pid \in HookPids :
         (DetachesFrom(pid) /\ tracees[pid].state = "forked")
           => tracees'[pid].state = "running"]_vars

-----------------------------------------------------------------------------
(* Claims about concurrent installs (SpecRace).                              *)

\* both installs have returned
BothReturned == \A p \in InstallerIds : installers[p].pc = "returned"

\* C39: when two dbgee processes install on the same unwrapped Target at
\* the same time, then however their checks, renames, writes and
\* set-permissions interleave, the bytes of the program are at Target or at
\* Target-original when both have returned, and at most one of the installs
\* has reported success.
C39_ConcurrentInstallsKeepProgram ==
    (BothReturned /\ (root \/ "r" \in fs0[TargetPath].mode))
      => /\ \E path \in Paths : fs[path].exists /\ fs[path].lines = fs0[TargetPath].lines
         /\ \E p \in InstallerIds : installers[p].result # "Ok"

====
